---- MODULE Spec2Model ----
(***************************************************************************)
(* Model of the apnxml package: the table-driven type codecs (APNTypeCore- *)
(* Map / APNTypeCoreProxy and the four configured storages), the carrier   *)
(* name cleaning and identity key of APNObjectRoot, and the grouping /     *)
(* sorting done by APNArray.UnmarshalXML.                                  *)
(*                                                                         *)
(* Go strings are TLA+ strings (a character is a string of length one),    *)
(* Go slices are sequences, Go maps are functions with a finite DOMAIN and *)
(* a nilable pointer is a sequence of length zero (nil) or one.            *)
(***************************************************************************)
EXTENDS Integers, Sequences, FiniteSets, TLC

----------------------------------------------------------------------------
(* Bounds of the model *)

\* largest number of flags combined in one codec value that is enumerated
MaxBits == 2
\* largest number of <apn> elements in one decoded document
MaxApns == 2
\* longest raw carrier string handed to GetCarrier on its own
MaxCarrierLen == 4

----------------------------------------------------------------------------
(* Nilable pointers *)

Nil == <<>>
Ptr(v) == <<v>>
IsNil(p) == Len(p) = 0
Deref(p) == p[1]

----------------------------------------------------------------------------
(* package strings / strconv *)

Char(s, i) == SubSeq(s, i, i)

UpperChars == "ABCDEFGHIJKLMNOPQRSTUVWXYZ"
LowerChars == "abcdefghijklmnopqrstuvwxyz"
\* the bytes that occur in the model, in ascending byte order
ByteOrder == "\t !\"*,-.0123456789:;ABCDEFGHIJKLMNOPQRSTUVWXYZ[]_abcdefghijklmnopqrstuvwxyz|"

Ord(c) == CHOOSE i \in 1..Len(ByteOrder) : Char(ByteOrder, i) = c

ToLowerChar(c) ==
    IF \E i \in 1..Len(UpperChars) : Char(UpperChars, i) = c
    THEN Char(LowerChars, CHOOSE i \in 1..Len(UpperChars) : Char(UpperChars, i) = c)
    ELSE c

ToUpperChar(c) ==
    IF \E i \in 1..Len(LowerChars) : Char(LowerChars, i) = c
    THEN Char(UpperChars, CHOOSE i \in 1..Len(LowerChars) : Char(LowerChars, i) = c)
    ELSE c

RECURSIVE ToLower(_)
ToLower(s) == IF Len(s) = 0 THEN "" ELSE ToLowerChar(Char(s, 1)) \o ToLower(Tail(s))

RECURSIVE ToUpper(_)
ToUpper(s) == IF Len(s) = 0 THEN "" ELSE ToUpperChar(Char(s, 1)) \o ToUpper(Tail(s))

IsSpace(c) == c \in {" ", "\t"}

RECURSIVE TrimLeft(_)
TrimLeft(s) == IF Len(s) > 0 /\ IsSpace(Char(s, 1)) THEN TrimLeft(Tail(s)) ELSE s

RECURSIVE TrimRight(_)
TrimRight(s) ==
    IF Len(s) > 0 /\ IsSpace(Char(s, Len(s)))
    THEN TrimRight(SubSeq(s, 1, Len(s) - 1))
    ELSE s

TrimSpace(s) == TrimRight(TrimLeft(s))

HasPrefix(s, p) == Len(p) <= Len(s) /\ SubSeq(s, 1, Len(p)) = p

\* position of the first occurrence of sep in s, 0 when there is none
Index(s, sep) ==
    LET hits == {i \in 1..(Len(s) - Len(sep) + 1) : SubSeq(s, i, i + Len(sep) - 1) = sep}
    IN  IF hits = {} THEN 0 ELSE CHOOSE i \in hits : \A j \in hits : i <= j

Contains(s, sub) == Len(sub) = 0 \/ Index(s, sub) > 0

\* strings.Split for a non-empty separator: n separators give n+1 pieces
\* (an empty separator splits after every character)
RECURSIVE Split(_, _)
Split(s, sep) ==
    IF Len(sep) = 0 THEN [i \in 1..Len(s) |-> Char(s, i)]
    ELSE LET i == Index(s, sep)
         IN  IF i = 0 THEN <<s>>
             ELSE <<SubSeq(s, 1, i - 1)>> \o Split(SubSeq(s, i + Len(sep), Len(s)), sep)

RECURSIVE Join(_, _)
Join(a, sep) ==
    IF Len(a) = 0 THEN ""
    ELSE IF Len(a) = 1 THEN a[1]
    ELSE a[1] \o sep \o Join(Tail(a), sep)

\* byte-wise comparison of Go strings
RECURSIVE StrLess(_, _)
StrLess(a, b) ==
    IF Len(b) = 0 THEN FALSE
    ELSE IF Len(a) = 0 THEN TRUE
    ELSE IF Char(a, 1) = Char(b, 1) THEN StrLess(Tail(a), Tail(b))
    ELSE Ord(Char(a, 1)) < Ord(Char(b, 1))

Digits == "0123456789"
IsDigit(c) == \E i \in 1..10 : Char(Digits, i) = c
DigitVal(c) == (CHOOSE i \in 1..10 : Char(Digits, i) = c) - 1

RECURSIVE Itoa(_)
Itoa(n) ==
    IF n < 0 THEN "-" \o Itoa(0 - n)
    ELSE IF n < 10 THEN Char(Digits, n + 1)
    ELSE Itoa(n \div 10) \o Char(Digits, (n % 10) + 1)

RECURSIVE DigitsVal(_, _)
DigitsVal(s, acc) ==
    IF Len(s) = 0 THEN acc ELSE DigitsVal(Tail(s), acc * 10 + DigitVal(Char(s, 1)))

\* strconv.Atoi: an optional sign followed by at least one decimal digit
Atoi(s) ==
    LET signed == Len(s) > 0 /\ Char(s, 1) \in {"-", "+"}
        body   == IF signed THEN Tail(s) ELSE s
        ok     == Len(body) > 0 /\ \A i \in 1..Len(body) : IsDigit(Char(body, i))
        mag    == IF ok THEN DigitsVal(body, 0) ELSE 0
    IN  [err |-> ~ok,
         val |-> IF signed /\ Char(s, 1) = "-" THEN 0 - mag ELSE mag]

\* fmt's %0<width>d for a non-negative or negative integer
RECURSIVE Zeros(_)
Zeros(n) == IF n <= 0 THEN "" ELSE "0" \o Zeros(n - 1)

PadZero(n, width) ==
    IF n < 0
    THEN "-" \o Zeros(width - 1 - Len(Itoa(0 - n))) \o Itoa(0 - n)
    ELSE Zeros(width - Len(Itoa(n))) \o Itoa(n)

----------------------------------------------------------------------------
(* Bit operations on Go ints (values stay far below 2^63) *)

RECURSIVE BitAnd(_, _)
BitAnd(a, b) ==
    IF a = 0 \/ b = 0 THEN 0
    ELSE (a % 2) * (b % 2) + 2 * BitAnd(a \div 2, b \div 2)

RECURSIVE BitOr(_, _)
BitOr(a, b) ==
    IF a = 0 THEN b
    ELSE IF b = 0 THEN a
    ELSE (IF (a % 2) + (b % 2) > 0 THEN 1 ELSE 0) + 2 * BitOr(a \div 2, b \div 2)

\* sort.Slice with the comparison i < j over a set of distinct ints
RECURSIVE SortAscending(_)
SortAscending(S) ==
    IF S = {} THEN <<>>
    ELSE LET m == CHOOSE x \in S : \A y \in S : x <= y
         IN  <<m>> \o SortAscending(S \ {m})

----------------------------------------------------------------------------
(* Errors: the nil error, the errors built with fmt.Errorf, the errors of  *)
(* encoding/json and a run-time panic of a failed type assertion           *)

ErrNil == "nil"
ErrIncorrectIndex == "apn type has incorrect index"
ErrIncorrectString == "apn type has incorrect string"
ErrIncorrectValue == "apn type has incorrect value"
ErrInvalidNumber == "apn type has invalid number"
ErrOutOfRange == "apn type has out of range number"
ErrJSONSyntax == "json: syntax error"
Panic == "panic: interface conversion"

\* value, ok := m[key] of a map[...]string: a missing key reads as ""
MapString(m, k) == IF k \in DOMAIN m THEN m[k] ELSE ""

----------------------------------------------------------------------------
(* APNTypeCoreMap *)

NewAPNTypeCoreMap(noneIndex, maxIndex, mapByIndex) ==
    LET trimmed == [i \in DOMAIN mapByIndex |-> TrimSpace(mapByIndex[i])]
    IN  [NoneIndex   |-> noneIndex,
         MaxIndex    |-> maxIndex,
         IndexArray  |-> SortAscending({i \in DOMAIN mapByIndex :
                                           noneIndex < i /\ i < maxIndex}),
         MapByIndex  |-> trimmed,
         \* the configured tables give every index its own name, so the
         \* order in which Go walks mapByIndex does not matter
         MapByString |-> [s \in {trimmed[i] : i \in DOMAIN trimmed} |->
                             CHOOSE i \in DOMAIN trimmed : trimmed[i] = s]]

GetIndex(apnTypeMap, apnTypeValue) ==
    IF apnTypeValue \in DOMAIN apnTypeMap.MapByIndex
    THEN apnTypeValue
    ELSE apnTypeMap.NoneIndex

\* the setters return the error and the value the target holds afterwards
SetIndex(apnTypeMap, target, apnTypeIndex) ==
    IF apnTypeIndex \notin DOMAIN apnTypeMap.MapByIndex
    THEN [err |-> ErrIncorrectIndex, val |-> target]
    ELSE [err |-> ErrNil, val |-> apnTypeIndex]

\* GetIndexArray leaving the loop at the first flag it finds
GetIndexArrayFirstFlag(apnTypeMap, apnTypeValue) ==
    LET apnTypeIndexArray ==
            SelectSeq(apnTypeMap.IndexArray,
                      LAMBDA apnTypeIndex :
                          BitAnd(apnTypeValue, apnTypeIndex) = apnTypeIndex)
    IN  IF Len(apnTypeIndexArray) = 0
        THEN <<apnTypeMap.NoneIndex>>
        ELSE <<apnTypeIndexArray[1]>>

GetIndexArray(apnTypeMap, apnTypeValue) ==
    LET apnTypeIndexArray ==
            SelectSeq(apnTypeMap.IndexArray,
                      LAMBDA apnTypeIndex :
                          BitAnd(apnTypeValue, apnTypeIndex) = apnTypeIndex)
    IN  IF Len(apnTypeIndexArray) = 0
        THEN <<apnTypeMap.NoneIndex>>
        ELSE apnTypeIndexArray

RECURSIVE SetIndexArrayLoop(_, _, _)
SetIndexArrayLoop(apnTypeMap, value, apnTypeIndexArray) ==
    IF Len(apnTypeIndexArray) = 0 THEN [err |-> ErrNil, val |-> value]
    ELSE IF apnTypeIndexArray[1] \notin DOMAIN apnTypeMap.MapByIndex
         THEN [err |-> ErrIncorrectIndex, val |-> value]
         ELSE SetIndexArrayLoop(apnTypeMap, BitOr(value, apnTypeIndexArray[1]),
                                Tail(apnTypeIndexArray))

\* SetIndexArray with = in the place of |=
SetIndexArrayAssign(apnTypeMap, target, apnTypeIndexArray) ==
    IF Len(apnTypeIndexArray) = 0
    THEN [err |-> ErrNil, val |-> apnTypeMap.NoneIndex]
    ELSE [err |-> ErrNil, val |-> apnTypeIndexArray[Len(apnTypeIndexArray)]]

SetIndexArray(apnTypeMap, target, apnTypeIndexArray) ==
    SetIndexArrayLoop(apnTypeMap, apnTypeMap.NoneIndex, apnTypeIndexArray)

GetString(apnTypeMap, apnTypeValue) ==
    MapString(apnTypeMap.MapByIndex, GetIndex(apnTypeMap, apnTypeValue))

SetString(apnTypeMap, target, apnTypeString) ==
    IF apnTypeString \notin DOMAIN apnTypeMap.MapByString
    THEN [err |-> ErrIncorrectString, val |-> target]
    ELSE SetIndex(apnTypeMap, target, apnTypeMap.MapByString[apnTypeString])

GetStringArray(apnTypeMap, apnTypeValue) ==
    LET apnTypeIndexArray == GetIndexArray(apnTypeMap, apnTypeValue)
    IN  [i \in 1..Len(apnTypeIndexArray) |->
            MapString(apnTypeMap.MapByIndex, apnTypeIndexArray[i])]

\* SetStringArray storing NoneIndex before it looks the names up
SetStringArrayResetFirst(apnTypeMap, target, apnTypeStringArray) ==
    LET lowered == [i \in 1..Len(apnTypeStringArray) |->
                       ToLower(TrimSpace(apnTypeStringArray[i]))]
    IN  IF \E i \in 1..Len(lowered) : lowered[i] \notin DOMAIN apnTypeMap.MapByString
        THEN [err |-> ErrIncorrectString, val |-> apnTypeMap.NoneIndex]
        ELSE SetIndexArray(apnTypeMap, target,
                           [i \in 1..Len(lowered) |-> apnTypeMap.MapByString[lowered[i]]])

SetStringArray(apnTypeMap, target, apnTypeStringArray) ==
    LET lowered == [i \in 1..Len(apnTypeStringArray) |->
                       ToLower(TrimSpace(apnTypeStringArray[i]))]
    IN  IF \E i \in 1..Len(lowered) : lowered[i] \notin DOMAIN apnTypeMap.MapByString
        THEN [err |-> ErrIncorrectString, val |-> target]
        ELSE SetIndexArray(apnTypeMap, target,
                           [i \in 1..Len(lowered) |-> apnTypeMap.MapByString[lowered[i]]])

GetValue(apnTypeMap, apnTypeValue) ==
    IF apnTypeValue <= apnTypeMap.NoneIndex THEN apnTypeMap.NoneIndex
    ELSE IF apnTypeMap.MaxIndex <= apnTypeValue THEN apnTypeMap.NoneIndex
    ELSE apnTypeValue

SetValue(apnTypeMap, target, apnTypeIndex) ==
    IF ~(apnTypeMap.NoneIndex <= apnTypeIndex /\ apnTypeIndex < apnTypeMap.MaxIndex)
    THEN [err |-> ErrIncorrectValue, val |-> target]
    ELSE [err |-> ErrNil, val |-> apnTypeIndex]

----------------------------------------------------------------------------
(* APNTypeCoreProxyOption *)

NewAPNTypeCoreProxyOption ==
    [jsonIsArray          |-> FALSE,
     xmlIsArray           |-> FALSE,
     xmlArrayHasSeparator |-> "",
     xmlIsString          |-> TRUE,
     xmlStringIsUpper     |-> FALSE,
     xmlIsNumber          |-> FALSE,
     xmlNumberIsOrder     |-> FALSE,
     xmlNumberIsIndex     |-> FALSE]

SetJSONIsArray(apnTypeProxyOption, jsonIsArray) ==
    [apnTypeProxyOption EXCEPT !.jsonIsArray = jsonIsArray]

SetXMLIsArray(apnTypeProxyOption, xmlArrayHasSeparator) ==
    [apnTypeProxyOption EXCEPT !.xmlIsArray = TRUE,
                               !.xmlArrayHasSeparator = xmlArrayHasSeparator]

SetXMLIsString(apnTypeProxyOption, xmlStringIsUpper) ==
    [apnTypeProxyOption EXCEPT !.xmlIsNumber = FALSE,
                               !.xmlIsString = TRUE,
                               !.xmlStringIsUpper = xmlStringIsUpper]

\* SetXMLIsNumber with the two numeric forms exchanged
SetXMLIsNumberExchanged(apnTypeProxyOption, xmlNumberIsOrder) ==
    [apnTypeProxyOption EXCEPT !.xmlIsString = FALSE,
                               !.xmlIsNumber = TRUE,
                               !.xmlNumberIsOrder = ~xmlNumberIsOrder,
                               !.xmlNumberIsIndex = xmlNumberIsOrder]

SetXMLIsNumber(apnTypeProxyOption, xmlNumberIsOrder) ==
    [apnTypeProxyOption EXCEPT !.xmlIsString = FALSE,
                               !.xmlIsNumber = TRUE,
                               !.xmlNumberIsOrder = xmlNumberIsOrder,
                               !.xmlNumberIsIndex = ~xmlNumberIsOrder]

----------------------------------------------------------------------------
(* APNTypeCoreProxy *)

NewAPNTypeCoreProxy(noneIndex, maxIndex, mapByIndex, option) ==
    LET JSONMap == NewAPNTypeCoreMap(noneIndex, maxIndex, mapByIndex)
        xmlStrings ==
            IF option.xmlIsString
            THEN [i \in DOMAIN JSONMap.MapByIndex |->
                     IF option.xmlStringIsUpper
                     THEN ToUpper(JSONMap.MapByIndex[i])
                     ELSE JSONMap.MapByIndex[i]]
            ELSE <<>>
        xmlNumbers ==
            IF option.xmlIsNumber
            THEN [i \in {JSONMap.IndexArray[o] : o \in 1..Len(JSONMap.IndexArray)} |->
                     Itoa(CHOOSE o \in 1..Len(JSONMap.IndexArray) :
                              JSONMap.IndexArray[o] = i)]
            ELSE <<>>
        \* the numbers are written after the strings and overwrite them
        xmlMapByIndex == xmlNumbers @@ xmlStrings
    IN  [JSONMap |-> JSONMap,
         XMLMap  |-> NewAPNTypeCoreMap(JSONMap.NoneIndex, JSONMap.MaxIndex, xmlMapByIndex),
         option  |-> option]

(* encoding/json, for the two shapes MarshalJSONValue produces.  The names *)
(* of the tables need no escaping.                                         *)
JSONQuote(str) == "\"" \o str \o "\""

JSONMarshalString(str) == JSONQuote(str)

JSONMarshalStringArray(a) ==
    IF Len(a) = 0 THEN "null"
    ELSE "[" \o Join([i \in 1..Len(a) |-> JSONQuote(a[i])], ",") \o "]"

IsJSONString(t) ==
    /\ Len(t) >= 2
    /\ Char(t, 1) = "\""
    /\ Char(t, Len(t)) = "\""
    /\ ~Contains(SubSeq(t, 2, Len(t) - 1), "\"")

(* json.Unmarshal(jsonByte, &apnTypeJSON) with apnTypeJSON an interface{}  *)
(* that holds a non-pointer value: the decoder does not look into the      *)
(* interface, it stores the generic Go value of the JSON text, whose       *)
(* dynamic type is string for a JSON string, []interface {} for a JSON     *)
(* array and nil for null.                                                 *)
JSONUnmarshalInterface(jsonByte) ==
    LET t     == TrimSpace(jsonByte)
        inner == TrimSpace(SubSeq(t, 2, Len(t) - 1))
        parts == IF Len(inner) = 0 THEN <<>> ELSE Split(inner, ",")
        items == [i \in 1..Len(parts) |-> TrimSpace(parts[i])]
    IN  IF t = "null"
        THEN [err |-> ErrNil, gotype |-> "nil", str |-> "", items |-> <<>>]
        ELSE IF IsJSONString(t)
        THEN [err |-> ErrNil, gotype |-> "string",
              str |-> SubSeq(t, 2, Len(t) - 1), items |-> <<>>]
        ELSE IF Len(t) >= 2 /\ Char(t, 1) = "[" /\ Char(t, Len(t)) = "]"
                /\ \A i \in 1..Len(items) : IsJSONString(items[i])
        THEN [err |-> ErrNil, gotype |-> "[]interface {}", str |-> "",
              items |-> [i \in 1..Len(items) |->
                            SubSeq(items[i], 2, Len(items[i]) - 1)]]
        ELSE [err |-> ErrJSONSyntax, gotype |-> "nil", str |-> "", items |-> <<>>]

MarshalJSONValue(apnTypeProxy, apnTypeValue) ==
    IF apnTypeProxy.option.jsonIsArray
    THEN JSONMarshalStringArray(GetStringArray(apnTypeProxy.JSONMap, apnTypeValue))
    ELSE JSONMarshalString(GetString(apnTypeProxy.JSONMap, apnTypeValue))

UnmarshalJSONValue(apnTypeProxy, target, jsonByte) ==
    LET apnTypeJSON == JSONUnmarshalInterface(jsonByte)
    IN  IF apnTypeJSON.err /= ErrNil
        THEN [err |-> apnTypeJSON.err, val |-> target]
        ELSE IF apnTypeProxy.option.jsonIsArray
        THEN \* apnTypeJSON.([]string)
             IF apnTypeJSON.gotype = "[]string"
             THEN SetStringArray(apnTypeProxy.JSONMap, target, apnTypeJSON.items)
             ELSE [err |-> Panic, val |-> target]
        ELSE \* apnTypeJSON.(string)
             IF apnTypeJSON.gotype = "string"
             THEN SetString(apnTypeProxy.JSONMap, target, apnTypeJSON.str)
             ELSE [err |-> Panic, val |-> target]

MarshalXMLValue(apnTypeProxy, apnTypeValue) ==
    LET o == apnTypeProxy.option
    IN  IF o.xmlIsArray
        THEN Join(GetStringArray(apnTypeProxy.XMLMap, apnTypeValue), o.xmlArrayHasSeparator)
        ELSE IF o.xmlIsNumber /\ o.xmlNumberIsIndex
        THEN Itoa(GetValue(apnTypeProxy.XMLMap, apnTypeValue))
        ELSE IF o.xmlIsNumber /\ o.xmlNumberIsOrder
        THEN GetString(apnTypeProxy.XMLMap, apnTypeValue)
        ELSE IF o.xmlIsString
        THEN GetString(apnTypeProxy.XMLMap, apnTypeValue)
        ELSE ""

\* UnmarshalXMLValue with < in the place of <= in the upper range check
UnmarshalXMLValueInclusiveMax(apnTypeProxy, target, xmlAttrValue) ==
    LET o == apnTypeProxy.option
        n == Atoi(xmlAttrValue)
    IN  IF o.xmlIsArray
        THEN SetStringArray(apnTypeProxy.XMLMap, target,
                            Split(xmlAttrValue, o.xmlArrayHasSeparator))
        ELSE IF o.xmlIsString
        THEN SetString(apnTypeProxy.XMLMap, target, xmlAttrValue)
        ELSE IF o.xmlIsNumber /\ o.xmlNumberIsOrder
        THEN SetString(apnTypeProxy.XMLMap, target, xmlAttrValue)
        ELSE IF o.xmlIsNumber /\ o.xmlNumberIsIndex
        THEN IF n.err
             THEN [err |-> ErrInvalidNumber, val |-> target]
             ELSE IF n.val < apnTypeProxy.XMLMap.NoneIndex
                     \/ apnTypeProxy.XMLMap.MaxIndex < n.val
             THEN [err |-> ErrOutOfRange, val |-> target]
             ELSE [err |-> ErrNil, val |-> n.val]
        ELSE [err |-> ErrNil, val |-> target]

UnmarshalXMLValue(apnTypeProxy, target, xmlAttrValue) ==
    LET o == apnTypeProxy.option
        n == Atoi(xmlAttrValue)
    IN  IF o.xmlIsArray
        THEN SetStringArray(apnTypeProxy.XMLMap, target,
                            Split(xmlAttrValue, o.xmlArrayHasSeparator))
        ELSE IF o.xmlIsString
        THEN SetString(apnTypeProxy.XMLMap, target, xmlAttrValue)
        ELSE IF o.xmlIsNumber /\ o.xmlNumberIsOrder
        THEN SetString(apnTypeProxy.XMLMap, target, xmlAttrValue)
        ELSE IF o.xmlIsNumber /\ o.xmlNumberIsIndex
        THEN IF n.err
             THEN [err |-> ErrInvalidNumber, val |-> target]
             ELSE IF n.val < apnTypeProxy.XMLMap.NoneIndex
                     \/ apnTypeProxy.XMLMap.MaxIndex <= n.val
             THEN [err |-> ErrOutOfRange, val |-> target]
             ELSE [err |-> ErrNil, val |-> n.val]
        ELSE [err |-> ErrNil, val |-> target]

----------------------------------------------------------------------------
(* The four configured types.  Each const block starts at 0 for NONE and   *)
(* gives the k-th following name the value 1 << (k - 1); MAX is the next   *)
(* value of the block.                                                     *)

IotaFlag(k) == 2 ^ (k - 1)

IotaTable(noneString, stringArray) ==
    [i \in {0} \cup {IotaFlag(k) : k \in 1..Len(stringArray)} |->
        IF i = 0 THEN noneString
        ELSE stringArray[CHOOSE k \in 1..Len(stringArray) : IotaFlag(k) = i]]

APNTypeBaseTypeNames ==
    <<"default", "mms", "supl", "dun", "hipri", "fota", "ims", "cbs", "ia",
      "emergency", "mcx", "xcap", "vsim", "bip", "enterprise", "rcs",
      "oem_paid", "oem_private">>
APNTYPE_BASE_TYPE_NONE == 0
APNTYPE_BASE_TYPE_DEFAULT == IotaFlag(1)
APNTYPE_BASE_TYPE_MMS == IotaFlag(2)
APNTYPE_BASE_TYPE_MAX == IotaFlag(Len(APNTypeBaseTypeNames) + 1)

apnTypeBaseTypeStorage ==
    NewAPNTypeCoreProxy(
        APNTYPE_BASE_TYPE_NONE,
        APNTYPE_BASE_TYPE_MAX,
        IotaTable("none", APNTypeBaseTypeNames),
        SetXMLIsString(SetXMLIsArray(SetJSONIsArray(NewAPNTypeCoreProxyOption, TRUE), ","), FALSE))

APNTypeAuthTypeNames == <<"pap", "chap">>
APNTYPE_AUTH_TYPE_NONE == 0
APNTYPE_AUTH_TYPE_MAX == IotaFlag(Len(APNTypeAuthTypeNames) + 1)

apnTypeAuthTypeStorage ==
    NewAPNTypeCoreProxy(
        APNTYPE_AUTH_TYPE_NONE,
        APNTYPE_AUTH_TYPE_MAX,
        IotaTable("none", APNTypeAuthTypeNames),
        SetXMLIsNumber(SetJSONIsArray(NewAPNTypeCoreProxyOption, TRUE), FALSE))

APNTypeNetworkTypeNames ==
    <<"gprs", "edge", "umts", "cdma", "evdo_0", "evdo_a", "1xrtt", "hsdpa",
      "hsupa", "hspa", "iden", "evdo_b", "lte", "ehrpd", "hspap", "gsm",
      "td_scdma", "iwlan", "lte_ca", "nr">>
APNTYPE_NETWORK_TYPE_NONE == 0
APNTYPE_NETWORK_TYPE_MAX == IotaFlag(Len(APNTypeNetworkTypeNames) + 1)

apnTypeNetworkTypeStorage ==
    NewAPNTypeCoreProxy(
        APNTYPE_NETWORK_TYPE_NONE,
        APNTYPE_NETWORK_TYPE_MAX,
        IotaTable("unknown", APNTypeNetworkTypeNames),
        SetXMLIsNumber(SetXMLIsArray(SetJSONIsArray(NewAPNTypeCoreProxyOption, TRUE), "|"), TRUE))

APNTypeBearerProtocolNames ==
    <<"ip", "ipv4", "ipv6", "ipv4v6", "ppp", "non-ip", "unstructured">>
APNTYPE_BEARER_PROTOCOL_NONE == 0
APNTYPE_BEARER_PROTOCOL_MAX == IotaFlag(Len(APNTypeBearerProtocolNames) + 1)

apnTypeBearerProtocolStorage ==
    NewAPNTypeCoreProxy(
        APNTYPE_BEARER_PROTOCOL_NONE,
        APNTYPE_BEARER_PROTOCOL_MAX,
        IotaTable("none", APNTypeBearerProtocolNames),
        SetXMLIsString(SetJSONIsArray(NewAPNTypeCoreProxyOption, FALSE), TRUE))

CodecNames == {"BaseType", "AuthType", "NetworkType", "BearerProtocol"}

Storage(c) ==
    CASE c = "BaseType"       -> apnTypeBaseTypeStorage
      [] c = "AuthType"       -> apnTypeAuthTypeStorage
      [] c = "NetworkType"    -> apnTypeNetworkTypeStorage
      [] c = "BearerProtocol" -> apnTypeBearerProtocolStorage

\* String joining the names the way the XML attribute does
BaseTypeStringComma(apnBaseType) ==
    Join(GetStringArray(apnTypeBaseTypeStorage.JSONMap, apnBaseType), ",")

\* APNTypeBaseType.String
BaseTypeString(apnBaseType) ==
    Join(GetStringArray(apnTypeBaseTypeStorage.JSONMap, apnBaseType), "|")

----------------------------------------------------------------------------
(* APNObjectRoot: [Carrier, CarrierID, Mcc, Mnc], the last three nilable   *)

helperClonePointer(pointer) == IF IsNil(pointer) THEN Nil ELSE Ptr(Deref(pointer))

\* Validate with || between the two identity fields
RootValidateEither(apnPointerRoot) ==
    /\ ~IsNil(apnPointerRoot)
    /\ (~IsNil(Deref(apnPointerRoot).Mcc) \/ ~IsNil(Deref(apnPointerRoot).Mnc))

RootValidate(apnPointerRoot) ==
    /\ ~IsNil(apnPointerRoot)
    /\ ~IsNil(Deref(apnPointerRoot).Mcc)
    /\ ~IsNil(Deref(apnPointerRoot).Mnc)

RootClone(apnPointerRoot) ==
    IF RootValidate(apnPointerRoot)
    THEN Ptr([Carrier   |-> Deref(apnPointerRoot).Carrier,
              CarrierID |-> helperClonePointer(Deref(apnPointerRoot).CarrierID),
              Mcc       |-> helperClonePointer(Deref(apnPointerRoot).Mcc),
              Mnc       |-> helperClonePointer(Deref(apnPointerRoot).Mnc)])
    ELSE Nil

apnRootCarrierWordMask ==
    {"2g", "3g", "4g", "5g", "lte", "nsa", "sa", "gprs",
     "none", "default", "mms", "supl", "dun", "hipri", "fota", "ims", "cbs",
     "ia", "emergency", "mcx", "xcap", "vsim", "bip", "enterprise", "rcs",
     "oem_paid", "oem_private",
     "internet", "data", "web", "wap", "wifi", "vowifi", "volte", "hotspot",
     "tether", "ota", "admin", "ut",
     "-"}

carrierSeparatorArray == <<" ", "-", "_", ".", ",", ":", ";", "|">>

GetCarrier(apnRootCarrierString) ==
    LET found == {i \in 1..Len(carrierSeparatorArray) :
                     Contains(apnRootCarrierString, carrierSeparatorArray[i])}
        apnRootCarrierWordArray ==
            IF found = {} THEN <<apnRootCarrierString>>
            ELSE Split(apnRootCarrierString,
                       carrierSeparatorArray[CHOOSE i \in found : \A j \in found : i <= j])
        _apnRootCarrierWordArray ==
            SelectSeq(apnRootCarrierWordArray,
                      LAMBDA apnRootCarrierWord :
                          TrimSpace(ToLower(apnRootCarrierWord)) \notin apnRootCarrierWordMask)
    IN  IF Len(_apnRootCarrierWordArray) = 0
        THEN apnRootCarrierString
        ELSE Join(_apnRootCarrierWordArray, " ")

GetPLMN(apnRoot) ==
    IF IsNil(apnRoot.Mcc) \/ IsNil(apnRoot.Mnc)
    THEN "00000"
    ELSE PadZero(Deref(apnRoot.Mcc), 3) \o PadZero(Deref(apnRoot.Mnc), 2)

GetID(apnRoot) ==
    (IF ~IsNil(apnRoot.CarrierID)
     THEN "CID:" \o Itoa(Deref(apnRoot.CarrierID)) \o ";"
     ELSE "")
    \o "PLMN:" \o GetPLMN(apnRoot) \o ";"

----------------------------------------------------------------------------
(* APNObjectBase: [Apn, Type, ProfileID], all nilable.  Validate returns   *)
(* its result together with the receiver as Validate leaves it.            *)

\* Validate without the assignment of APNTYPE_BASE_TYPE_DEFAULT
BaseValidateNoDefault(apnPointerBase) ==
    IF IsNil(apnPointerBase) THEN [ok |-> FALSE, self |-> apnPointerBase]
    ELSE LET b == Deref(apnPointerBase)
         IN  [ok   |-> ~IsNil(b.Apn) \/ ~IsNil(b.Type) \/ ~IsNil(b.ProfileID),
              self |-> Ptr(b)]

BaseValidate(apnPointerBase) ==
    IF IsNil(apnPointerBase) THEN [ok |-> FALSE, self |-> apnPointerBase]
    ELSE LET b == Deref(apnPointerBase)
             d == IF ~IsNil(b.Apn) /\ IsNil(b.Type)
                  THEN [b EXCEPT !.Type = Ptr(APNTYPE_BASE_TYPE_DEFAULT)]
                  ELSE b
         IN  [ok   |-> ~IsNil(d.Apn) \/ ~IsNil(d.Type) \/ ~IsNil(d.ProfileID),
              self |-> Ptr(d)]

BaseClone(apnPointerBase) ==
    LET v == BaseValidate(apnPointerBase)
    IN  IF v.ok
        THEN Ptr([Apn       |-> helperClonePointer(Deref(v.self).Apn),
                  Type      |-> helperClonePointer(Deref(v.self).Type),
                  ProfileID |-> helperClonePointer(Deref(v.self).ProfileID)])
        ELSE Nil

----------------------------------------------------------------------------
(* The field groups of APNObject.  A group is a record of nilable fields.  *)
(* Validate returns its result together with the receiver as it leaves it. *)

AuthValidateNoDefault(apnPointerAuth) ==
    IF IsNil(apnPointerAuth) THEN [ok |-> FALSE, self |-> apnPointerAuth]
    ELSE LET a == Deref(apnPointerAuth)
         IN  [ok   |-> ~IsNil(a.Type) /\ (~IsNil(a.Username) \/ ~IsNil(a.Password)),
              self |-> apnPointerAuth]

AuthValidate(apnPointerAuth) ==
    IF IsNil(apnPointerAuth) THEN [ok |-> FALSE, self |-> apnPointerAuth]
    ELSE LET a == Deref(apnPointerAuth)
         IN  IF ~IsNil(a.Type) /\ (~IsNil(a.Username) \/ ~IsNil(a.Password))
             THEN [ok   |-> TRUE,
                   self |-> Ptr([a EXCEPT
                                   !.Username = IF IsNil(a.Username) THEN Ptr("") ELSE @,
                                   !.Password = IF IsNil(a.Password) THEN Ptr("") ELSE @])]
             ELSE [ok |-> FALSE, self |-> apnPointerAuth]

BearerValidate(apnPointerBearer) ==
    /\ ~IsNil(apnPointerBearer)
    /\ (~IsNil(Deref(apnPointerBearer).Type) \/ ~IsNil(Deref(apnPointerBearer).TypeRoaming))

ProxyValidate(apnPointerProxy) ==
    /\ ~IsNil(apnPointerProxy)
    /\ ~IsNil(Deref(apnPointerProxy).Server)
    /\ Deref(Deref(apnPointerProxy).Server) /= ""
    /\ ~IsNil(Deref(apnPointerProxy).Port)

MmsValidate(apnPointerMms) ==
    /\ ~IsNil(apnPointerMms)
    /\ \/ (~IsNil(Deref(apnPointerMms).Center) /\ Deref(Deref(apnPointerMms).Center) /= "")
       \/ (~IsNil(Deref(apnPointerMms).Server) /\ Deref(Deref(apnPointerMms).Server) /= "")
       \/ ~IsNil(Deref(apnPointerMms).Port)

MvnoValidate(apnPointerMvno) ==
    /\ ~IsNil(apnPointerMvno)
    /\ (~IsNil(Deref(apnPointerMvno).Type) \/ ~IsNil(Deref(apnPointerMvno).Data))

LimitValidate(apnPointerLimit) ==
    /\ ~IsNil(apnPointerLimit)
    /\ (~IsNil(Deref(apnPointerLimit).MaxConn) \/ ~IsNil(Deref(apnPointerLimit).MaxConnTime))

OtherValidate(apnPointerOther) ==
    /\ ~IsNil(apnPointerOther)
    /\ \/ ~IsNil(Deref(apnPointerOther).NetworkTypeBitmask)
       \/ ~IsNil(Deref(apnPointerOther).ModemCognitive)
       \/ ~IsNil(Deref(apnPointerOther).CarrierEnabled)
       \/ ~IsNil(Deref(apnPointerOther).UserVisible)
       \/ ~IsNil(Deref(apnPointerOther).UserEditable)

\* Validate of the group of the given type
Validate(kind, apnPointer) ==
    CASE kind = "Root"   -> [ok |-> RootValidate(apnPointer), self |-> apnPointer]
      [] kind = "Base"   -> BaseValidate(apnPointer)
      [] kind = "Auth"   -> AuthValidate(apnPointer)
      [] kind = "Bearer" -> [ok |-> BearerValidate(apnPointer), self |-> apnPointer]
      [] kind = "Proxy"  -> [ok |-> ProxyValidate(apnPointer), self |-> apnPointer]
      [] kind = "Mms"    -> [ok |-> MmsValidate(apnPointer), self |-> apnPointer]
      [] kind = "Mvno"   -> [ok |-> MvnoValidate(apnPointer), self |-> apnPointer]
      [] kind = "Limit"  -> [ok |-> LimitValidate(apnPointer), self |-> apnPointer]
      [] kind = "Other"  -> [ok |-> OtherValidate(apnPointer), self |-> apnPointer]

(* Helper IsLike *)

helperIsLikeString(left, right) ==
    LET l == TrimSpace(ToLower(left))
        r == TrimSpace(ToLower(right))
    IN  r = "" \/ Contains(l, r)

helperIsLikeStringPointer(left, right) ==
    IF IsNil(left) \/ IsNil(right) THEN IsNil(right)
    ELSE helperIsLikeString(Deref(left), Deref(right))

helperIsLikeIntPointer(left, right) ==
    IF IsNil(left) \/ IsNil(right) THEN IsNil(right)
    ELSE Deref(left) = Deref(right)

helperIsLikeMaskPointer(left, right) ==
    IF IsNil(left) \/ IsNil(right) THEN IsNil(right)
    ELSE BitAnd(Deref(left), Deref(right)) = Deref(right)

BaseIsLike(apnPointerBase, apnPointer) ==
    IF IsNil(apnPointerBase) \/ IsNil(apnPointer) THEN IsNil(apnPointer)
    ELSE /\ helperIsLikeStringPointer(Deref(apnPointerBase).Apn, Deref(apnPointer).Apn)
         /\ helperIsLikeMaskPointer(Deref(apnPointerBase).Type, Deref(apnPointer).Type)
         /\ helperIsLikeIntPointer(Deref(apnPointerBase).ProfileID, Deref(apnPointer).ProfileID)

AuthIsLike(apnPointerAuth, apnPointer) ==
    IF IsNil(apnPointerAuth) \/ IsNil(apnPointer) THEN IsNil(apnPointer)
    ELSE /\ helperIsLikeMaskPointer(Deref(apnPointerAuth).Type, Deref(apnPointer).Type)
         /\ helperIsLikeStringPointer(Deref(apnPointerAuth).Username, Deref(apnPointer).Username)
         /\ helperIsLikeStringPointer(Deref(apnPointerAuth).Password, Deref(apnPointer).Password)

BearerIsLike(apnPointerBearer, apnPointer) ==
    IF IsNil(apnPointerBearer) \/ IsNil(apnPointer) THEN IsNil(apnPointer)
    ELSE /\ helperIsLikeMaskPointer(Deref(apnPointerBearer).Type, Deref(apnPointer).Type)
         /\ helperIsLikeMaskPointer(Deref(apnPointerBearer).TypeRoaming, Deref(apnPointer).TypeRoaming)
         /\ helperIsLikeIntPointer(Deref(apnPointerBearer).Mtu, Deref(apnPointer).Mtu)
         /\ helperIsLikeStringPointer(Deref(apnPointerBearer).Server, Deref(apnPointer).Server)

ProxyIsLike(apnPointerProxy, apnPointer) ==
    IF IsNil(apnPointerProxy) \/ IsNil(apnPointer) THEN IsNil(apnPointer)
    ELSE /\ helperIsLikeStringPointer(Deref(apnPointerProxy).Server, Deref(apnPointer).Server)
         /\ helperIsLikeIntPointer(Deref(apnPointerProxy).Port, Deref(apnPointer).Port)

MmsIsLike(apnPointerMms, apnPointer) ==
    IF IsNil(apnPointerMms) \/ IsNil(apnPointer) THEN IsNil(apnPointer)
    ELSE /\ helperIsLikeStringPointer(Deref(apnPointerMms).Center, Deref(apnPointer).Center)
         /\ helperIsLikeStringPointer(Deref(apnPointerMms).Server, Deref(apnPointer).Server)
         /\ helperIsLikeIntPointer(Deref(apnPointerMms).Port, Deref(apnPointer).Port)

MvnoIsLike(apnPointerMvno, apnPointer) ==
    IF IsNil(apnPointerMvno) \/ IsNil(apnPointer) THEN IsNil(apnPointer)
    ELSE /\ helperIsLikeStringPointer(Deref(apnPointerMvno).Type, Deref(apnPointer).Type)
         /\ helperIsLikeStringPointer(Deref(apnPointerMvno).Data, Deref(apnPointer).Data)

LimitIsLike(apnPointerLimit, apnPointer) ==
    IF IsNil(apnPointerLimit) \/ IsNil(apnPointer) THEN IsNil(apnPointer)
    ELSE /\ helperIsLikeIntPointer(Deref(apnPointerLimit).MaxConn, Deref(apnPointer).MaxConn)
         /\ helperIsLikeIntPointer(Deref(apnPointerLimit).MaxConnTime, Deref(apnPointer).MaxConnTime)

OtherIsLike(apnPointerOther, apnPointer) ==
    IF IsNil(apnPointerOther) \/ IsNil(apnPointer) THEN IsNil(apnPointer)
    ELSE helperIsLikeMaskPointer(Deref(apnPointerOther).NetworkTypeBitmask,
                                 Deref(apnPointer).NetworkTypeBitmask)

\* IsLike of the group of the given type
IsLike(kind, apnPointerGroup, apnPointer) ==
    CASE kind = "Base"   -> BaseIsLike(apnPointerGroup, apnPointer)
      [] kind = "Auth"   -> AuthIsLike(apnPointerGroup, apnPointer)
      [] kind = "Bearer" -> BearerIsLike(apnPointerGroup, apnPointer)
      [] kind = "Proxy"  -> ProxyIsLike(apnPointerGroup, apnPointer)
      [] kind = "Mms"    -> MmsIsLike(apnPointerGroup, apnPointer)
      [] kind = "Mvno"   -> MvnoIsLike(apnPointerGroup, apnPointer)
      [] kind = "Limit"  -> LimitIsLike(apnPointerGroup, apnPointer)
      [] kind = "Other"  -> OtherIsLike(apnPointerGroup, apnPointer)

(* Clone of the groups *)

AuthClone(apnPointerAuth) ==
    LET v == AuthValidate(apnPointerAuth)
    IN  IF v.ok
        THEN Ptr([Type     |-> helperClonePointer(Deref(v.self).Type),
                  Username |-> helperClonePointer(Deref(v.self).Username),
                  Password |-> helperClonePointer(Deref(v.self).Password)])
        ELSE Nil

BearerClone(apnPointerBearer) ==
    IF BearerValidate(apnPointerBearer)
    THEN Ptr([Type        |-> helperClonePointer(Deref(apnPointerBearer).Type),
              TypeRoaming |-> helperClonePointer(Deref(apnPointerBearer).TypeRoaming),
              Mtu         |-> helperClonePointer(Deref(apnPointerBearer).Mtu),
              Server      |-> helperClonePointer(Deref(apnPointerBearer).Server)])
    ELSE Nil

ProxyClone(apnPointerProxy) ==
    IF ProxyValidate(apnPointerProxy)
    THEN Ptr([Server |-> helperClonePointer(Deref(apnPointerProxy).Server),
              Port   |-> helperClonePointer(Deref(apnPointerProxy).Port)])
    ELSE Nil

MmsClone(apnPointerMms) ==
    IF MmsValidate(apnPointerMms)
    THEN Ptr([Center |-> helperClonePointer(Deref(apnPointerMms).Center),
              Server |-> helperClonePointer(Deref(apnPointerMms).Server),
              Port   |-> helperClonePointer(Deref(apnPointerMms).Port)])
    ELSE Nil

MvnoClone(apnPointerMvno) ==
    IF MvnoValidate(apnPointerMvno)
    THEN Ptr([Type |-> helperClonePointer(Deref(apnPointerMvno).Type),
              Data |-> helperClonePointer(Deref(apnPointerMvno).Data)])
    ELSE Nil

LimitClone(apnPointerLimit) ==
    IF LimitValidate(apnPointerLimit)
    THEN Ptr([MaxConn     |-> helperClonePointer(Deref(apnPointerLimit).MaxConn),
              MaxConnTime |-> helperClonePointer(Deref(apnPointerLimit).MaxConnTime)])
    ELSE Nil

OtherClone(apnPointerOther) ==
    IF OtherValidate(apnPointerOther)
    THEN Ptr([NetworkTypeBitmask |-> helperClonePointer(Deref(apnPointerOther).NetworkTypeBitmask),
              ModemCognitive     |-> helperClonePointer(Deref(apnPointerOther).ModemCognitive),
              CarrierEnabled     |-> helperClonePointer(Deref(apnPointerOther).CarrierEnabled),
              UserVisible        |-> helperClonePointer(Deref(apnPointerOther).UserVisible),
              UserEditable       |-> helperClonePointer(Deref(apnPointerOther).UserEditable)])
    ELSE Nil

----------------------------------------------------------------------------
(* APNObject.UnmarshalXML of one <apn> element.  The element is the record *)
(* of its attributes, each nil (not written) or the attribute's text.      *)

XMLAttrNames == {"carrier", "carrier_id", "mcc", "mnc", "apn", "type", "profile_id"}

\* encoding/xml on an int field: empty text is 0, otherwise the trimmed
\* text is parsed in base 10
XMLInt(src) ==
    IF Len(src) = 0 THEN [err |-> FALSE, val |-> 0] ELSE Atoi(TrimSpace(src))

XMLIntPointer(attr) ==
    IF IsNil(attr) THEN [err |-> FALSE, ptr |-> Nil]
    ELSE [err |-> XMLInt(Deref(attr)).err, ptr |-> Ptr(XMLInt(Deref(attr)).val)]

\* xmlDecoder.DecodeElement(&_apnObject, &xmlStart) on helperAPNObject: an
\* embedded struct is allocated when one of its attributes is written.  The
\* elements carry the attributes of the identity and of the Base group, so
\* the structs of the other seven groups stay nil
DecodeHelperFields(xmlAttr, cid, mcc, mnc, pid, type) ==
    LET hasRoot == \E n \in {"carrier", "carrier_id", "mcc", "mnc"} : ~IsNil(xmlAttr[n])
        hasBase == \E n \in {"apn", "type", "profile_id"} : ~IsNil(xmlAttr[n])
    IN  [err |-> IF cid.err \/ mcc.err \/ mnc.err \/ pid.err THEN ErrInvalidNumber
                  ELSE type.err,
         APNObjectRoot |->
            IF hasRoot
            THEN Ptr([Carrier   |-> IF IsNil(xmlAttr.carrier) THEN "" ELSE Deref(xmlAttr.carrier),
                      CarrierID |-> cid.ptr,
                      Mcc       |-> mcc.ptr,
                      Mnc       |-> mnc.ptr])
            ELSE Nil,
         APNObjectBase |->
            IF hasBase
            THEN Ptr([Apn       |-> xmlAttr.apn,
                      Type      |-> IF IsNil(xmlAttr.type) THEN Nil ELSE Ptr(type.val),
                      ProfileID |-> pid.ptr])
            ELSE Nil,
         APNObjectAuth   |-> Nil,
         APNObjectBearer |-> Nil,
         APNObjectProxy  |-> Nil,
         APNObjectMms    |-> Nil,
         APNObjectMvno   |-> Nil,
         APNObjectLimit  |-> Nil,
         APNObjectOther  |-> Nil]

\* DecodeElement into the helper: every attribute is parsed once
DecodeHelperAPNObject(xmlAttr) ==
    DecodeHelperFields(xmlAttr,
        XMLIntPointer(xmlAttr.carrier_id),
        XMLIntPointer(xmlAttr.mcc),
        XMLIntPointer(xmlAttr.mnc),
        XMLIntPointer(xmlAttr.profile_id),
        IF IsNil(xmlAttr.type) THEN [err |-> ErrNil, val |-> 0]
        ELSE UnmarshalXMLValue(apnTypeBaseTypeStorage, 0, Deref(xmlAttr.type)))

\* helperApnPointerClone hands back the Clone() of the group it is given
helperApnPointerClone(apnPointer, Type) ==
    CASE Type = "APNObjectRoot"   -> RootClone(apnPointer)
      [] Type = "APNObjectBase"   -> BaseClone(apnPointer)
      [] Type = "APNObjectAuth"   -> AuthClone(apnPointer)
      [] Type = "APNObjectBearer" -> BearerClone(apnPointer)
      [] Type = "APNObjectProxy"  -> ProxyClone(apnPointer)
      [] Type = "APNObjectMms"    -> MmsClone(apnPointer)
      [] Type = "APNObjectMvno"   -> MvnoClone(apnPointer)
      [] Type = "APNObjectLimit"  -> LimitClone(apnPointer)
      [] Type = "APNObjectOther"  -> OtherClone(apnPointer)

\* the groups of the helper, each through helperApnPointerClone, with the
\* error DecodeElement gave
APNObjectFromHelper(_apnObject) ==
    [err |-> _apnObject.err,
     obj |-> [APNObjectRoot  |-> helperApnPointerClone(_apnObject.APNObjectRoot, "APNObjectRoot"),
              Base           |-> helperApnPointerClone(_apnObject.APNObjectBase, "APNObjectBase"),
              Auth           |-> helperApnPointerClone(_apnObject.APNObjectAuth, "APNObjectAuth"),
              Bearer         |-> helperApnPointerClone(_apnObject.APNObjectBearer, "APNObjectBearer"),
              Proxy          |-> helperApnPointerClone(_apnObject.APNObjectProxy, "APNObjectProxy"),
              Mms            |-> helperApnPointerClone(_apnObject.APNObjectMms, "APNObjectMms"),
              Mvno           |-> helperApnPointerClone(_apnObject.APNObjectMvno, "APNObjectMvno"),
              Limit          |-> helperApnPointerClone(_apnObject.APNObjectLimit, "APNObjectLimit"),
              Other          |-> helperApnPointerClone(_apnObject.APNObjectOther, "APNObjectOther"),
              GroupMapByType |-> Nil]]

\* UnmarshalXML without the return of DecodeElement's error
APNObjectUnmarshalXMLNoReturn(xmlAttr) ==
    [APNObjectFromHelper(DecodeHelperAPNObject(xmlAttr)) EXCEPT !.err = ErrNil]

APNObjectUnmarshalXML(xmlAttr) ==
    APNObjectFromHelper(DecodeHelperAPNObject(xmlAttr))

----------------------------------------------------------------------------
(* APNArray.UnmarshalXML *)

\* the comparison without its last branch
SortLessNoID(a, b) ==
    LET mccA == Deref(Deref(a.APNObjectRoot).Mcc)
        mncA == Deref(Deref(a.APNObjectRoot).Mnc)
        mccB == Deref(Deref(b.APNObjectRoot).Mcc)
        mncB == Deref(Deref(b.APNObjectRoot).Mnc)
    IN  IF mccA /= mccB THEN mccA < mccB
        ELSE mncA < mncB

\* the comparison handed to sort.Slice
SortLess(a, b) ==
    LET mccA == Deref(Deref(a.APNObjectRoot).Mcc)
        mncA == Deref(Deref(a.APNObjectRoot).Mnc)
        mccB == Deref(Deref(b.APNObjectRoot).Mcc)
        mncB == Deref(Deref(b.APNObjectRoot).Mnc)
        cidA == GetID(Deref(a.APNObjectRoot))
        cidB == GetID(Deref(b.APNObjectRoot))
    IN  IF mccA /= mccB THEN mccA < mccB
        ELSE IF mncA /= mncB THEN mncA < mncB
        ELSE StrLess(cidA, cidB)

\* sort.Slice is not stable: every arrangement of the slice that is in
\* order for the comparison is a possible result
SortSlice(array) ==
    {[i \in 1..Len(array) |-> array[p[i]]] : p \in
        {q \in Permutations(1..Len(array)) :
            \A i, j \in 1..Len(array) : i < j => ~SortLess(array[q[j]], array[q[i]])}}

\* the test with <= between the two lengths
ReplacesRootOrEqual(apnPointerRoot, apnObject) ==
    \/ IsNil(apnPointerRoot)
    \/ Len(Deref(apnPointerRoot).Carrier) <= Len(Deref(apnObject.APNObjectRoot).Carrier)

\* whether the root of the object read becomes the root kept for its key
ReplacesRoot(apnPointerRoot, apnObject) ==
    \/ IsNil(apnPointerRoot)
    \/ Len(Deref(apnPointerRoot).Carrier) < Len(Deref(apnObject.APNObjectRoot).Carrier)

\* the inner loop without the clearing of the member's root
RECURSIVE GroupLoopKeepRoot(_, _)
GroupLoopKeepRoot(groupMap, apnPointerArray) ==
    IF Len(apnPointerArray) = 0 THEN groupMap
    ELSE LET apnPointer == apnPointerArray[1]
         IN  IF IsNil(apnPointer.Base) \/ IsNil(Deref(apnPointer.Base).Type)
             THEN GroupLoopKeepRoot(groupMap, Tail(apnPointerArray))
             ELSE GroupLoopKeepRoot(
                    (BaseTypeString(Deref(Deref(apnPointer.Base).Type)) :> apnPointer)
                        @@ groupMap,
                    Tail(apnPointerArray))

\* the inner loop over one identity's members, in the order they were read
RECURSIVE GroupLoop(_, _)
GroupLoop(groupMap, apnPointerArray) ==
    IF Len(apnPointerArray) = 0 THEN groupMap
    ELSE LET apnPointer == apnPointerArray[1]
         IN  IF IsNil(apnPointer.Base) \/ IsNil(Deref(apnPointer.Base).Type)
             THEN GroupLoop(groupMap, Tail(apnPointerArray))
             ELSE GroupLoop(
                    (BaseTypeString(Deref(Deref(apnPointer.Base).Type))
                        :> [apnPointer EXCEPT !.APNObjectRoot = Nil]) @@ groupMap,
                    Tail(apnPointerArray))

BuildRepresentative(apnPointerRoot, apnPointerArray) ==
    LET clone == Deref(RootClone(apnPointerRoot))
    IN  [APNObjectRoot  |-> Ptr([clone EXCEPT !.Carrier = GetCarrier(clone.Carrier)]),
         Base           |-> Nil,
         Auth           |-> Nil,
         Bearer         |-> Nil,
         Proxy          |-> Nil,
         Mms            |-> Nil,
         Mvno           |-> Nil,
         Limit          |-> Nil,
         Other          |-> Nil,
         GroupMapByType |-> Ptr(GroupLoop(<<>>, apnPointerArray))]

----------------------------------------------------------------------------
(* APNObjectRoot.IsLike, APNObject.GetIsLikePointer and APNObject.IsLike   *)

RootIsLike(apnPointerRoot, apnPointer) ==
    IF IsNil(apnPointerRoot) \/ IsNil(apnPointer) THEN IsNil(apnPointer)
    ELSE LET root == Deref(apnPointerRoot)
             like == Deref(apnPointer)
         IN  /\ ~IsNil(like.CarrierID) =>
                    (~IsNil(root.CarrierID) /\ Deref(root.CarrierID) = Deref(like.CarrierID))
             /\ (~IsNil(like.Mcc) /\ ~IsNil(like.Mnc)) =>
                    /\ ~IsNil(root.Mcc) /\ ~IsNil(root.Mnc)
                    /\ Deref(root.Mcc) = Deref(like.Mcc)
                    /\ Deref(root.Mnc) = Deref(like.Mnc)
             /\ helperIsLikeString(root.Carrier, like.Carrier)

\* the eight groups of the receiver against those of the query
GroupsAreLike(apnObject, apnObjectQuery) ==
    /\ BaseIsLike(apnObject.Base, apnObjectQuery.Base)
    /\ AuthIsLike(apnObject.Auth, apnObjectQuery.Auth)
    /\ BearerIsLike(apnObject.Bearer, apnObjectQuery.Bearer)
    /\ ProxyIsLike(apnObject.Proxy, apnObjectQuery.Proxy)
    /\ MmsIsLike(apnObject.Mms, apnObjectQuery.Mms)
    /\ MvnoIsLike(apnObject.Mvno, apnObjectQuery.Mvno)
    /\ LimitIsLike(apnObject.Limit, apnObjectQuery.Limit)
    /\ OtherIsLike(apnObject.Other, apnObjectQuery.Other)

\* the pointers GetIsLikePointer can return: the range over GroupMapByType
\* returns the first entry that matches, in an order Go picks
RECURSIVE GetIsLikePointer(_, _)
GetIsLikePointer(apnPointerCore, apnPointerQuery) ==
    IF IsNil(apnPointerCore) \/ IsNil(apnPointerQuery)
    THEN IF IsNil(apnPointerQuery) THEN {apnPointerCore} ELSE {Nil}
    ELSE IF ~IsNil(Deref(apnPointerCore).GroupMapByType)
    THEN IF \A k \in DOMAIN Deref(Deref(apnPointerCore).GroupMapByType) :
                GetIsLikePointer(Ptr(Deref(Deref(apnPointerCore).GroupMapByType)[k]),
                                 apnPointerQuery) = {Nil}
         THEN {Nil}
         ELSE UNION {GetIsLikePointer(Ptr(Deref(Deref(apnPointerCore).GroupMapByType)[k]),
                                      apnPointerQuery) \ {Nil} :
                        k \in DOMAIN Deref(Deref(apnPointerCore).GroupMapByType)}
    ELSE IF /\ ~IsNil(Deref(apnPointerCore).APNObjectRoot)
            /\ ~RootIsLike(Deref(apnPointerCore).APNObjectRoot,
                           Deref(apnPointerQuery).APNObjectRoot)
    THEN {Nil}
    ELSE IF GroupsAreLike(Deref(apnPointerCore), Deref(apnPointerQuery))
    THEN {apnPointerCore}
    ELSE {Nil}

APNObjectIsLike(apnPointerCore, apnPointerQuery) ==
    GetIsLikePointer(apnPointerCore, apnPointerQuery) /= {Nil}

----------------------------------------------------------------------------
(* APNObject.Clone, APNObject.MarshalXML and the loop body of              *)
(* APNArray.MarshalXML                                                     *)

ErrWrite == "write error"

\* a write that forgets the errors of the writes before it
WriterErrForgetful(failedBefore, failsNow) ==
    IF failsNow THEN ErrWrite ELSE ErrNil

\* what a call of EncodeToken, EncodeElement or Flush returns: the writer
\* of the encoder keeps its first error and hands it to every later call
WriterErr(failedBefore, failsNow) ==
    IF failedBefore \/ failsNow THEN ErrWrite ELSE ErrNil

\* the results of the calls of EncodeElement of one pass of the range loop
\* over n elements, when the writer starts to fail at the failAt-th
ElementErrs(n, failedBefore, failAt) ==
    [j \in 1..n |-> WriterErr(failedBefore \/ (failAt /= 0 /\ failAt < j), failAt = j)]

\* err after the loop over the sorted keys: every call assigns it, so it is
\* the result of the last call, and nil when there was no call
LoopErr(errs) == IF Len(errs) = 0 THEN ErrNil ELSE errs[Len(errs)]

\* the elements whose EncodeElement returned nil
RECURSIVE Written(_, _)
Written(elements, errs) ==
    IF Len(elements) = 0 THEN <<>>
    ELSE (IF errs[1] = ErrNil THEN <<elements[1]>> ELSE <<>>)
         \o Written(Tail(elements), Tail(errs))

\* the text encoding/xml writes for an int attribute
XMLIntText(pointer) == IF IsNil(pointer) THEN Nil ELSE Ptr(Itoa(Deref(pointer)))

\* xmlEncoder.EncodeElement(_apnObject, xmlStart) on helperAPNObject: the
\* attributes of every embedded struct that is not nil; omitempty leaves
\* out a nil pointer and the empty Carrier string.  The structs of the
\* groups other than Base are nil in the collections of the model and
\* write no attribute
EncodeHelperAPNObject(_apnObject) ==
    LET root == _apnObject.APNObjectRoot
        base == _apnObject.APNObjectBase
    IN  [carrier    |-> IF IsNil(root) \/ Deref(root).Carrier = "" THEN Nil
                        ELSE Ptr(Deref(root).Carrier),
         carrier_id |-> IF IsNil(root) THEN Nil ELSE XMLIntText(Deref(root).CarrierID),
         mcc        |-> IF IsNil(root) THEN Nil ELSE XMLIntText(Deref(root).Mcc),
         mnc        |-> IF IsNil(root) THEN Nil ELSE XMLIntText(Deref(root).Mnc),
         apn        |-> IF IsNil(base) THEN Nil ELSE Deref(base).Apn,
         type       |-> IF IsNil(base) \/ IsNil(Deref(base).Type) THEN Nil
                        ELSE Ptr(MarshalXMLValue(apnTypeBaseTypeStorage,
                                                 Deref(Deref(base).Type))),
         profile_id |-> IF IsNil(base) THEN Nil ELSE XMLIntText(Deref(base).ProfileID)]

APNObjectMarshalXML(apnObjectCore) ==
    EncodeHelperAPNObject(
        [APNObjectRoot   |-> helperApnPointerClone(apnObjectCore.APNObjectRoot, "APNObjectRoot"),
         APNObjectBase   |-> helperApnPointerClone(apnObjectCore.Base, "APNObjectBase"),
         APNObjectAuth   |-> helperApnPointerClone(apnObjectCore.Auth, "APNObjectAuth"),
         APNObjectBearer |-> helperApnPointerClone(apnObjectCore.Bearer, "APNObjectBearer"),
         APNObjectProxy  |-> helperApnPointerClone(apnObjectCore.Proxy, "APNObjectProxy"),
         APNObjectMms    |-> helperApnPointerClone(apnObjectCore.Mms, "APNObjectMms"),
         APNObjectMvno   |-> helperApnPointerClone(apnObjectCore.Mvno, "APNObjectMvno"),
         APNObjectLimit  |-> helperApnPointerClone(apnObjectCore.Limit, "APNObjectLimit"),
         APNObjectOther  |-> helperApnPointerClone(apnObjectCore.Other, "APNObjectOther")])

RECURSIVE APNObjectClone(_)
APNObjectClone(apnPointerCore) ==
    [APNObjectRoot  |-> helperApnPointerClone(apnPointerCore.APNObjectRoot, "APNObjectRoot"),
     Base           |-> helperApnPointerClone(apnPointerCore.Base, "APNObjectBase"),
     Auth           |-> helperApnPointerClone(apnPointerCore.Auth, "APNObjectAuth"),
     Bearer         |-> helperApnPointerClone(apnPointerCore.Bearer, "APNObjectBearer"),
     Proxy          |-> helperApnPointerClone(apnPointerCore.Proxy, "APNObjectProxy"),
     Mms            |-> helperApnPointerClone(apnPointerCore.Mms, "APNObjectMms"),
     Mvno           |-> helperApnPointerClone(apnPointerCore.Mvno, "APNObjectMvno"),
     Limit          |-> helperApnPointerClone(apnPointerCore.Limit, "APNObjectLimit"),
     Other          |-> helperApnPointerClone(apnPointerCore.Other, "APNObjectOther"),
     GroupMapByType |->
        IF IsNil(apnPointerCore.GroupMapByType) THEN Nil
        ELSE Ptr([apnPointerBaseTypeString \in DOMAIN Deref(apnPointerCore.GroupMapByType) |->
                    APNObjectClone(Deref(apnPointerCore.GroupMapByType)[apnPointerBaseTypeString])])]

\* the keys sorted the other way round
RECURSIVE SortStringsDescending(_)
SortStringsDescending(S) ==
    IF S = {} THEN <<>>
    ELSE LET m == CHOOSE x \in S : \A y \in S : x = y \/ StrLess(y, x)
         IN  <<m>> \o SortStringsDescending(S \ {m})

\* sort.Strings over the keys collected from the map
RECURSIVE SortStrings(_)
SortStrings(S) ==
    IF S = {} THEN <<>>
    ELSE LET m == CHOOSE x \in S : \A y \in S : x = y \/ StrLess(x, y)
         IN  <<m>> \o SortStrings(S \ {m})

\* one pass of the range loop: the elements handed to EncodeElement, in
\* the order they are handed over
MarshalXMLGroups(apnPointerRoot, apnPointerBaseTypeArray) ==
    IF IsNil(apnPointerRoot.GroupMapByType)
    THEN <<APNObjectMarshalXML(apnPointerRoot)>>
    ELSE [i \in 1..Len(apnPointerBaseTypeArray) |->
            APNObjectMarshalXML(
                [Deref(apnPointerRoot.GroupMapByType)[apnPointerBaseTypeArray[i]]
                    EXCEPT !.APNObjectRoot = apnPointerRoot.APNObjectRoot])]

\* the range loop works on apnObjectRoot.Clone() and on the sorted keys of
\* its GroupMapByType
MarshalXMLElements(apnObjectRoot) ==
    MarshalXMLGroups(APNObjectClone(apnObjectRoot),
                     IF IsNil(apnObjectRoot.GroupMapByType) THEN <<>>
                     ELSE SortStrings(DOMAIN Deref(apnObjectRoot.GroupMapByType)))

----------------------------------------------------------------------------
(* Groups in storage.  A cell of the heap holds a group struct (its Carrier *)
(* string and the addresses in its pointer fields, 0 for nil) or the value *)
(* a field pointer points to; an address is a position of the heap.        *)

GroupKinds ==
    {"Root", "Base", "Auth", "Bearer", "Proxy", "Mms", "Mvno", "Limit", "Other"}

\* the pointer fields of the struct, in the order of its declaration, and
\* what each points to
GroupLayout(kind) ==
    CASE kind = "Root"   -> << <<"CarrierID", "cid">>, <<"Mcc", "mcc">>, <<"Mnc", "mnc">> >>
      [] kind = "Base"   -> << <<"Apn", "string">>, <<"Type", "mask">>, <<"ProfileID", "int">> >>
      [] kind = "Auth"   -> << <<"Type", "mask">>, <<"Username", "string">>,
                               <<"Password", "string">> >>
      [] kind = "Bearer" -> << <<"Type", "mask">>, <<"TypeRoaming", "mask">>,
                               <<"Mtu", "int">>, <<"Server", "string">> >>
      [] kind = "Proxy"  -> << <<"Server", "string">>, <<"Port", "int">> >>
      [] kind = "Mms"    -> << <<"Center", "string">>, <<"Server", "string">>,
                               <<"Port", "int">> >>
      [] kind = "Mvno"   -> << <<"Type", "string">>, <<"Data", "string">> >>
      [] kind = "Limit"  -> << <<"MaxConn", "int">>, <<"MaxConnTime", "int">> >>
      [] kind = "Other"  -> << <<"NetworkTypeBitmask", "mask">>, <<"ModemCognitive", "bool">>,
                               <<"CarrierEnabled", "flag">>, <<"UserVisible", "flag">>,
                               <<"UserEditable", "flag">> >>

GroupFields(kind) == [i \in 1..Len(GroupLayout(kind)) |-> GroupLayout(kind)[i][1]]

\* the fields that are held in the struct itself
InlineFields == {"Carrier"}

\* the group at an address, read out of the heap
Load(heap, address) ==
    IF address = 0 THEN Nil
    ELSE Ptr([f \in DOMAIN heap[address] |->
                IF f \in InlineFields THEN heap[address][f]
                ELSE IF heap[address][f] = 0 THEN Nil
                ELSE Ptr(heap[heap[address][f]])])

\* the cells of the group at an address
Cells(heap, address) ==
    IF address = 0 THEN {}
    ELSE {address} \cup
         ({heap[address][f] : f \in DOMAIN heap[address] \ InlineFields} \ {0})

\* the struct with every nil field that has a value in the group taken
\* from a new variable: var value = ...; pointer.Field = &value
RECURSIVE AssignFields(_, _, _, _)
AssignFields(heap, address, group, fields) ==
    IF fields = <<>> THEN heap
    ELSE LET f == Head(fields)
         IN  IF heap[address][f] = 0 /\ ~IsNil(group[f])
             THEN AssignFields(
                    [Append(heap, Deref(group[f])) EXCEPT ![address][f] = Len(heap) + 1],
                    address, group, Tail(fields))
             ELSE AssignFields(heap, address, group, Tail(fields))

\* helperClonePointer returning the pointer it was given
helperClonePointerShared(heap, address) ==
    [heap |-> heap, address |-> address]

\* helperClonePointer in storage: object := *pointer; return &object
helperClonePointerCell(heap, address) ==
    IF address = 0 THEN [heap |-> heap, address |-> 0]
    ELSE [heap |-> Append(heap, heap[address]), address |-> Len(heap) + 1]

\* the struct literal of Clone, field after field
RECURSIVE CloneFields(_, _, _, _)
CloneFields(heap, address, clone, fields) ==
    IF fields = <<>> THEN [heap |-> Append(heap, clone), address |-> Len(heap) + 1]
    ELSE LET c == helperClonePointerCell(heap, heap[address][Head(fields)])
         IN  CloneFields(c.heap, address,
                         [clone EXCEPT ![Head(fields)] = c.address], Tail(fields))

\* Validate on the group at an address
GroupValidate(kind, heap, address) ==
    LET v == Validate(kind, Load(heap, address))
    IN  [ok   |-> v.ok,
         heap |-> IF address = 0 THEN heap
                  ELSE AssignFields(heap, address, Deref(v.self), GroupFields(kind))]

\* Clone on the group at an address
GroupClone(kind, heap, address) ==
    LET v == GroupValidate(kind, heap, address)
    IN  IF v.ok
        THEN CloneFields(v.heap, address, v.heap[address], GroupFields(kind))
        ELSE [heap |-> v.heap, address |-> 0]

----------------------------------------------------------------------------
(* State *)

VARIABLES
    \* one use of a type codec
    codec,               \* the configured type
    flagSet,             \* the flags the value was put together from
    apnTypeValue,        \* the value handed to the Marshal / Get methods
    wire,                \* the XML attribute text or the JSON bytes
    target,              \* the variable the Set / Unmarshal methods write
    err,                 \* what the last Set / Unmarshal method returned
    op,                  \* the methods called so far
    apnTypeStringArray,  \* the names handed to SetStringArray
    apnTypeIndexArray,   \* the result of GetIndexArray
    \* one call of APNObjectRoot.GetCarrier
    carrier,             \* the raw Carrier field
    cleaned,             \* nil, or the string GetCarrier returned
    \* one call of APNArray.UnmarshalXML
    pc,                  \* "idle", "loop" (reading tokens), "done", "failed"
    xmlStartName,        \* the name of the root element
    document,            \* the <apn> elements read so far
    apnPointerArrayMap,  \* identity key -> the valid objects with that key
    apnPointerRootMap,   \* identity key -> the root kept for that key
    apnArray,            \* the receiver *apnArray
    decodeErr,           \* the error UnmarshalXML returned
    likeIndex,           \* the position of the object IsLike was called on
    apnPointerQuery,     \* the argument of APNObject.IsLike
    isLike,              \* nothing, or what APNObject.IsLike returned
    \* one call of APNArray.MarshalXML
    encPc,               \* "idle", "loop" (inside the range loop), "done", "failed"
    encArray,            \* the receiver apnArray
    encIndex,            \* the position of the next object of the range loop
    encoded,             \* the <apn> elements written so far
    encodeErr,           \* the error MarshalXML returned
    encWriter,           \* whether the writer of the encoder holds an error
    encFailed,           \* the calls of EncodeElement that returned an error
    \* one field group and the methods called on it
    groupKind,           \* the type of the group
    groupHeap,           \* the cells the field pointers point to
    receiver,            \* the address of the receiver, 0 for nil
    receiverBefore,      \* the receiver's fields before the last call
    query,               \* the argument of IsLike
    groupOp,             \* the methods called so far
    groupResult,         \* what the last call returned
    \* one call that encodes to JSON
    jsonPc,              \* "idle", "running", "returned", "fatal"
    jsonArray,           \* the collection
    jsonType,            \* the type of the value json.MarshalIndent was given
    jsonStack,           \* the functions entered and not yet left
    jsonReturn           \* nothing, or the error the function on top returned

codecVars == <<codec, flagSet, apnTypeValue, wire, target, err, op,
               apnTypeStringArray, apnTypeIndexArray>>
carrierVars == <<carrier, cleaned>>
decodeVars == <<pc, xmlStartName, document, apnPointerArrayMap, apnPointerRootMap,
                apnArray, decodeErr, likeIndex, apnPointerQuery, isLike>>
encodeVars == <<encPc, encArray, encIndex, encoded, encodeErr, encWriter, encFailed>>
groupVars == <<groupKind, groupHeap, receiver, receiverBefore, query, groupOp,
               groupResult>>
jsonVars == <<jsonPc, jsonArray, jsonType, jsonStack, jsonReturn>>
vars == <<codec, flagSet, apnTypeValue, wire, target, err, op,
          apnTypeStringArray, apnTypeIndexArray, carrier, cleaned,
          pc, xmlStartName, document, apnPointerArrayMap, apnPointerRootMap,
          apnArray, decodeErr, likeIndex, apnPointerQuery, isLike,
          encPc, encArray, encIndex, encoded, encodeErr, encWriter, encFailed,
          groupKind, groupHeap, receiver, receiverBefore, query, groupOp,
          groupResult, jsonPc, jsonArray, jsonType, jsonStack, jsonReturn>>

CodecIdle ==
    /\ codec = "BaseType" /\ flagSet = {} /\ apnTypeValue = 0 /\ wire = ""
    /\ target = 0 /\ err = ErrNil /\ op = <<>>
    /\ apnTypeStringArray = <<>> /\ apnTypeIndexArray = <<>>

CarrierIdle == carrier = "" /\ cleaned = Nil

DecodeIdle ==
    /\ pc = "idle" /\ xmlStartName = "" /\ document = <<>>
    /\ apnPointerArrayMap = <<>> /\ apnPointerRootMap = <<>>
    /\ apnArray = <<>> /\ decodeErr = ErrNil
    /\ likeIndex = 0 /\ apnPointerQuery = Nil /\ isLike = <<>>

EncodeIdle ==
    /\ encPc = "idle" /\ encArray = <<>> /\ encIndex = 1
    /\ encoded = <<>> /\ encodeErr = ErrNil
    /\ encWriter = FALSE /\ encFailed = {}

GroupIdle ==
    /\ groupKind = "Base" /\ groupHeap = <<>> /\ receiver = 0
    /\ receiverBefore = Nil /\ query = Nil /\ groupOp = <<>> /\ groupResult = <<>>

JSONIdle ==
    /\ jsonPc = "idle" /\ jsonArray = <<>> /\ jsonType = ""
    /\ jsonStack = <<>> /\ jsonReturn = <<>>

----------------------------------------------------------------------------
(* Using a type codec *)

SetToSeq(S) == SortAscending(S)

RECURSIVE SubsetsUpTo(_, _)
SubsetsUpTo(S, k) ==
    IF k = 0 THEN {{}}
    ELSE LET P == SubsetsUpTo(S, k - 1)
         IN  P \cup {p \cup {x} : p \in P, x \in S}

RECURSIVE OrAll(_)
OrAll(a) == IF Len(a) = 0 THEN 0 ELSE BitOr(a[1], OrAll(Tail(a)))

Flags(c) == {Storage(c).JSONMap.IndexArray[i] :
                i \in 1..Len(Storage(c).JSONMap.IndexArray)}

\* the flag sets enumerated for a type: up to MaxBits flags, and all flags
FlagSets(c) == SubsetsUpTo(Flags(c), MaxBits) \cup {Flags(c)}

Reverse(a) == [i \in 1..Len(a) |-> a[Len(a) + 1 - i]]

\* attribute texts and JSON texts that no Marshal method wrote
RawXMLText == {"", "*", "bogus", "0", "1", "-1", "3", "4", "21", "1048576", "99999999"}
RawJSONText == {"", "\"\"", "[]", "[\"\"]", "null", "[\"*\"]"}

CodecInit ==
    /\ codec \in CodecNames
    /\ flagSet \in FlagSets(codec)
    /\ apnTypeValue = OrAll(SetToSeq(flagSet))
    /\ target \in {Storage(codec).JSONMap.NoneIndex, Storage(codec).JSONMap.IndexArray[1]}
    /\ wire = "" /\ err = ErrNil /\ op = <<>>
    /\ apnTypeStringArray = <<>> /\ apnTypeIndexArray = <<>>
    /\ CarrierIdle /\ DecodeIdle /\ EncodeIdle /\ GroupIdle /\ JSONIdle

CallMarshalXMLValue ==
    /\ op = <<>>
    /\ wire' = MarshalXMLValue(Storage(codec), apnTypeValue)
    /\ op' = <<"MarshalXMLValue">>
    /\ UNCHANGED <<codec, flagSet, apnTypeValue, target, err,
                   apnTypeStringArray, apnTypeIndexArray>>
    /\ UNCHANGED <<carrierVars, decodeVars, encodeVars, groupVars, jsonVars>>

\* UnmarshalXMLValue of the attribute MarshalXMLValue wrote, or of a text
\* from elsewhere
CallUnmarshalXMLValue ==
    /\ \/ op = <<"MarshalXMLValue">> /\ wire' = wire
       \/ op = <<>> /\ wire' \in RawXMLText
    /\ LET r == UnmarshalXMLValue(Storage(codec), target, wire')
       IN  target' = r.val /\ err' = r.err
    /\ op' = Append(op, "UnmarshalXMLValue")
    /\ UNCHANGED <<codec, flagSet, apnTypeValue, apnTypeStringArray, apnTypeIndexArray>>
    /\ UNCHANGED <<carrierVars, decodeVars, encodeVars, groupVars, jsonVars>>

CallMarshalJSONValue ==
    /\ op = <<>>
    /\ wire' = MarshalJSONValue(Storage(codec), apnTypeValue)
    /\ op' = <<"MarshalJSONValue">>
    /\ UNCHANGED <<codec, flagSet, apnTypeValue, target, err,
                   apnTypeStringArray, apnTypeIndexArray>>
    /\ UNCHANGED <<carrierVars, decodeVars, encodeVars, groupVars, jsonVars>>

CallUnmarshalJSONValue ==
    /\ \/ op = <<"MarshalJSONValue">> /\ wire' = wire
       \/ op = <<>> /\ wire' \in RawJSONText
    /\ LET r == UnmarshalJSONValue(Storage(codec), target, wire')
       IN  target' = r.val /\ err' = r.err
    /\ op' = Append(op, "UnmarshalJSONValue")
    /\ UNCHANGED <<codec, flagSet, apnTypeValue, apnTypeStringArray, apnTypeIndexArray>>
    /\ UNCHANGED <<carrierVars, decodeVars, encodeVars, groupVars, jsonVars>>

\* names that are in no table of names
OtherNames == {"*", "bogus"}

\* SetStringArray of the names of flagSet, in ascending or descending
\* order, alone or followed by a name that is in no table
CallSetStringArray ==
    /\ op = <<>>
    /\ \E descending \in BOOLEAN, other \in {<<>>} \cup {<<n>> : n \in OtherNames} :
          LET indices == IF descending THEN Reverse(SetToSeq(flagSet)) ELSE SetToSeq(flagSet)
          IN  apnTypeStringArray' =
                  [i \in 1..Len(indices) |-> Storage(codec).JSONMap.MapByIndex[indices[i]]]
                  \o other
    /\ LET r == SetStringArray(Storage(codec).JSONMap, target, apnTypeStringArray')
       IN  target' = r.val /\ err' = r.err
    /\ op' = <<"SetStringArray">>
    /\ UNCHANGED <<codec, flagSet, apnTypeValue, wire, apnTypeIndexArray>>
    /\ UNCHANGED <<carrierVars, decodeVars, encodeVars, groupVars, jsonVars>>

\* GetIndexArray of the value SetStringArray composed, or of apnTypeValue
CallGetIndexArray ==
    /\ \/ /\ op = <<"SetStringArray">> /\ err = ErrNil
          /\ apnTypeIndexArray' = GetIndexArray(Storage(codec).JSONMap, target)
       \/ /\ op = <<>>
          /\ apnTypeIndexArray' = GetIndexArray(Storage(codec).JSONMap, apnTypeValue)
    /\ op' = Append(op, "GetIndexArray")
    /\ UNCHANGED <<codec, flagSet, apnTypeValue, wire, target, err, apnTypeStringArray>>
    /\ UNCHANGED <<carrierVars, decodeVars, encodeVars, groupVars, jsonVars>>

CodecNext ==
    \/ CallMarshalXMLValue
    \/ CallUnmarshalXMLValue
    \/ CallMarshalJSONValue
    \/ CallUnmarshalJSONValue
    \/ CallSetStringArray
    \/ CallGetIndexArray

SpecCodec == CodecInit /\ [][CodecNext]_vars

----------------------------------------------------------------------------
(* Calling GetCarrier on a root *)

\* a letter, a digit and a capital that spell the masked word "4g", a letter
\* of no masked word, and the first three separators
CarrierChars == {"4", "g", "G", "x", " ", "-", "_"}

RECURSIVE StringsUpTo(_, _)
StringsUpTo(chars, n) ==
    IF n = 0 THEN {""}
    ELSE LET shorter == StringsUpTo(chars, n - 1)
         IN  shorter \cup {str \o c : str \in shorter, c \in chars}

CarrierInit ==
    /\ carrier \in StringsUpTo(CarrierChars, MaxCarrierLen)
    /\ cleaned = Nil
    /\ CodecIdle /\ DecodeIdle /\ EncodeIdle /\ GroupIdle /\ JSONIdle

CallGetCarrier ==
    /\ IsNil(cleaned)
    /\ cleaned' = Ptr(GetCarrier(carrier))
    /\ UNCHANGED <<carrier, codecVars, decodeVars, encodeVars, groupVars, jsonVars>>

CarrierNext == CallGetCarrier

SpecCarrier == CarrierInit /\ [][CarrierNext]_vars

----------------------------------------------------------------------------
(* Calling APNArray.UnmarshalXML on a document *)

Attr(carrierAttr, cidAttr, mccAttr, mncAttr, apnAttr, typeAttr) ==
    [carrier |-> carrierAttr, carrier_id |-> cidAttr, mcc |-> mccAttr, mnc |-> mncAttr,
     apn |-> apnAttr, type |-> typeAttr, profile_id |-> Nil]

\* the <apn> elements a document is made of
ApnElements ==
    {Attr(<<"Orange FR">>, Nil,      <<"208">>,  <<"01">>,  Nil,          <<"default,mms">>),
     Attr(<<"Orange">>,    Nil,      <<"208">>,  <<"1">>,   <<"orange">>, Nil),
     Attr(<<"Orange 4G">>, Nil,      <<"208">>,  <<"01">>,  Nil,          <<"mms">>),
     Attr(<<"LTE-">>,      <<"9">>,  <<"208">>,  <<"01">>,  Nil,          <<"default">>),
     Attr(<<"SFR">>,       <<"10">>, <<"208">>,  <<"01">>,  Nil,          <<"default">>),
     Attr(<<"Free">>,      Nil,      <<"208">>,  <<"15">>,  Nil,          Nil),
     Attr(<<"ATT">>,       Nil,      <<"310">>,  <<"410">>, Nil,          <<"default">>),
     Attr(<<"NoMcc">>,     Nil,      Nil,        <<"01">>,  Nil,          <<"default">>),
     Attr(<<"NoMnc">>,     Nil,      <<"208">>,  Nil,       Nil,          <<"mms">>),
     Attr(<<"Wide">>,      Nil,      <<"1234">>, <<"5">>,   Nil,          <<"default">>),
     Attr(<<"Long">>,      Nil,      <<"123">>,  <<"405">>, Nil,          <<"mms">>),
     Attr(<<"Bad">>,       Nil,      <<"208">>,  <<"01">>,  Nil,          <<"bogus">>),
     Attr(<<"Bouygues">>,  Nil,      <<"208">>,  <<"01">>,  <<"mmsbouygtel">>, <<"mms">>),
     [Attr(<<"Free">>,     Nil,      <<"208">>,  <<"15">>,  Nil,          Nil)
        EXCEPT !.profile_id = <<"2">>]}

RootNames == {"apns", "carriers"}

DecodeInit ==
    CodecIdle /\ CarrierIdle /\ DecodeIdle /\ EncodeIdle /\ GroupIdle /\ JSONIdle

\* entry: the check of the root element's name
UnmarshalXMLStart ==
    /\ pc = "idle"
    /\ xmlStartName' \in RootNames
    /\ IF xmlStartName' /= "apns"
       THEN pc' = "failed" /\ decodeErr' = "apn xml has incorrect root element"
       ELSE pc' = "loop" /\ decodeErr' = ErrNil
    /\ UNCHANGED <<document, apnPointerArrayMap, apnPointerRootMap, apnArray>>
    /\ UNCHANGED <<likeIndex, apnPointerQuery, isLike>>
    /\ UNCHANGED <<codecVars, carrierVars, encodeVars, groupVars, jsonVars>>

\* one turn of the token loop on the start of an <apn> element
UnmarshalXMLApn ==
    /\ pc = "loop"
    /\ Len(document) < MaxApns
    /\ \E xmlAttr \in ApnElements : \E r \in {APNObjectUnmarshalXML(xmlAttr)} :
          LET apnObject == r.obj
              apnObjectBaseID == GetID(Deref(apnObject.APNObjectRoot))
              apnPointerRoot == IF apnObjectBaseID \in DOMAIN apnPointerRootMap
                                THEN apnPointerRootMap[apnObjectBaseID]
                                ELSE Nil
          IN  /\ document' = Append(document, xmlAttr)
              /\ IF r.err /= ErrNil
                 THEN /\ pc' = "failed"
                      /\ decodeErr' = r.err
                      /\ UNCHANGED <<apnPointerArrayMap, apnPointerRootMap>>
                 ELSE /\ UNCHANGED <<pc, decodeErr>>
                      /\ IF RootValidate(apnObject.APNObjectRoot)
                         THEN /\ apnPointerArrayMap' =
                                    (apnObjectBaseID :>
                                        Append(IF apnObjectBaseID \in DOMAIN apnPointerArrayMap
                                               THEN apnPointerArrayMap[apnObjectBaseID]
                                               ELSE <<>>,
                                               apnObject))
                                    @@ apnPointerArrayMap
                              /\ apnPointerRootMap' =
                                    IF ReplacesRoot(apnPointerRoot, apnObject)
                                    THEN (apnObjectBaseID :> apnObject.APNObjectRoot)
                                         @@ apnPointerRootMap
                                    ELSE apnPointerRootMap
                         ELSE UNCHANGED <<apnPointerArrayMap, apnPointerRootMap>>
    /\ UNCHANGED <<xmlStartName, apnArray>>
    /\ UNCHANGED <<likeIndex, apnPointerQuery, isLike>>
    /\ UNCHANGED <<codecVars, carrierVars, encodeVars, groupVars, jsonVars>>

\* the token loop meets a syntax error in the document
UnmarshalXMLTokenError ==
    /\ pc = "loop"
    /\ pc' = "failed"
    /\ decodeErr' = "XML syntax error"
    /\ UNCHANGED <<xmlStartName, document, apnPointerArrayMap, apnPointerRootMap, apnArray>>
    /\ UNCHANGED <<likeIndex, apnPointerQuery, isLike>>
    /\ UNCHANGED <<codecVars, carrierVars, encodeVars, groupVars, jsonVars>>

\* io.EOF: the loop over apnPointerArrayMap, in an order Go picks, then
\* sort.Slice
UnmarshalXMLFinish ==
    /\ pc = "loop"
    /\ LET keys == DOMAIN apnPointerArrayMap
           n == Cardinality(keys)
       IN  \E order \in {o \in [1..n -> keys] : \A i, j \in 1..n : o[i] = o[j] => i = j} :
              apnArray' \in SortSlice(
                  apnArray \o [i \in 1..n |->
                                  BuildRepresentative(apnPointerRootMap[order[i]],
                                                      apnPointerArrayMap[order[i]])])
    /\ pc' = "done"
    /\ decodeErr' = ErrNil
    /\ UNCHANGED <<xmlStartName, document, apnPointerArrayMap, apnPointerRootMap>>
    /\ UNCHANGED <<likeIndex, apnPointerQuery, isLike>>
    /\ UNCHANGED <<codecVars, carrierVars, encodeVars, groupVars, jsonVars>>

\* a query with an identity and, at most, a Base group
Query(carrierString, carrierID, mcc, mnc, base) ==
    Ptr([APNObjectRoot  |-> Ptr([Carrier |-> carrierString, CarrierID |-> carrierID,
                                 Mcc |-> mcc, Mnc |-> mnc]),
         Base           |-> base,
         Auth           |-> Nil,
         Bearer         |-> Nil,
         Proxy          |-> Nil,
         Mms            |-> Nil,
         Mvno           |-> Nil,
         Limit          |-> Nil,
         Other          |-> Nil,
         GroupMapByType |-> Nil])

Queries ==
    {Nil,
     Query("", Nil, Nil, Nil, Nil),
     Query("", Nil, Ptr(310), Ptr(410), Nil),
     Query("", Nil, Ptr(208), Ptr(1), Nil),
     Query("", Ptr(9), Nil, Nil, Nil),
     Query("sfr", Nil, Nil, Nil, Nil),
     Query("", Nil, Ptr(208), Ptr(15),
           Ptr([Apn |-> Nil, Type |-> Ptr(APNTYPE_BASE_TYPE_MMS), ProfileID |-> Nil]))}

\* APNObject.IsLike on an object of the decoded collection
CallObjectIsLike ==
    /\ pc = "done"
    /\ isLike = <<>>
    /\ \E n \in 1..Len(apnArray), q \in Queries :
          /\ likeIndex' = n
          /\ apnPointerQuery' = q
          /\ isLike' = <<APNObjectIsLike(Ptr(apnArray[n]), q)>>
    /\ UNCHANGED <<pc, xmlStartName, document, apnPointerArrayMap, apnPointerRootMap,
                   apnArray, decodeErr>>
    /\ UNCHANGED <<codecVars, carrierVars, encodeVars, groupVars, jsonVars>>

DecodeNext ==
    \/ UnmarshalXMLStart
    \/ UnmarshalXMLApn
    \/ UnmarshalXMLTokenError
    \/ UnmarshalXMLFinish
    \/ CallObjectIsLike

SpecDecode == DecodeInit /\ [][DecodeNext]_vars

----------------------------------------------------------------------------
(* Calling APNArray.MarshalXML on a collection *)

\* the elements the records of a collection were read from
EncodeElements ==
    {e \in ApnElements :
        /\ Deref(e.carrier) \in {"Orange FR", "Orange", "Orange 4G", "Free", "ATT"}}

\* a record with no GroupMapByType, as UnmarshalXML leaves it
FlatObjects == {APNObjectUnmarshalXML(e).obj : e \in EncodeElements}

\* the members a representative is put together from
MemberArrays ==
    {m \in UNION {[1..n -> FlatObjects] : n \in 1..2} :
        \A i \in 1..Len(m) :
            GetID(Deref(m[i].APNObjectRoot)) = GetID(Deref(m[1].APNObjectRoot))}

EncodeObjects ==
    FlatObjects \cup {BuildRepresentative(m[1].APNObjectRoot, m) : m \in MemberArrays}

EncodeInit ==
    /\ CodecIdle /\ CarrierIdle /\ DecodeIdle /\ GroupIdle /\ JSONIdle
    /\ encPc = "idle" /\ encIndex = 1 /\ encoded = <<>> /\ encodeErr = ErrNil
    /\ encWriter = FALSE /\ encFailed = {}
    /\ encArray \in UNION {[1..n -> EncodeObjects] : n \in 0..MaxApns}

\* EncodeToken(xmlStart): the <apns version="8"> start tag
MarshalXMLStart ==
    /\ encPc = "idle"
    /\ \E failed \in BOOLEAN :
          /\ encWriter' = (encWriter \/ failed)
          /\ IF WriterErr(encWriter, failed) /= ErrNil
             THEN encPc' = "failed" /\ encodeErr' = WriterErr(encWriter, failed)
             ELSE encPc' = "loop" /\ UNCHANGED encodeErr
    /\ UNCHANGED <<encArray, encIndex, encoded, encFailed>>
    /\ UNCHANGED <<codecVars, carrierVars, decodeVars, groupVars, jsonVars>>

\* one pass of the range loop over apnArray: the calls of EncodeElement,
\* each assigning err, and the test of err after them
MarshalXMLObject ==
    /\ encPc = "loop"
    /\ encIndex <= Len(encArray)
    /\ \E elements \in {MarshalXMLElements(encArray[encIndex])} :
          \E failAt \in 0..Len(elements) :
            \E errs \in {ElementErrs(Len(elements), encWriter, failAt)} :
              /\ encoded' = encoded \o Written(elements, errs)
              /\ encWriter' = (encWriter \/ failAt /= 0)
              /\ encFailed' = encFailed \cup
                    {<<encIndex, k>> : k \in {l \in 1..Len(errs) : errs[l] /= ErrNil}}
              /\ IF LoopErr(errs) /= ErrNil
                 THEN /\ encPc' = "failed"
                      /\ encodeErr' = LoopErr(errs)
                      /\ UNCHANGED encIndex
                 ELSE /\ encIndex' = encIndex + 1
                      /\ UNCHANGED <<encPc, encodeErr>>
    /\ UNCHANGED encArray
    /\ UNCHANGED <<codecVars, carrierVars, decodeVars, groupVars, jsonVars>>

\* EncodeToken(xmlStart.End()) and Flush
MarshalXMLEnd ==
    /\ encPc = "loop"
    /\ encIndex > Len(encArray)
    /\ \E failed \in BOOLEAN :
          /\ encWriter' = (encWriter \/ failed)
          /\ IF WriterErr(encWriter, failed) /= ErrNil
             THEN encPc' = "failed" /\ encodeErr' = WriterErr(encWriter, failed)
             ELSE encPc' = "done" /\ UNCHANGED encodeErr
    /\ UNCHANGED <<encArray, encIndex, encoded, encFailed>>
    /\ UNCHANGED <<codecVars, carrierVars, decodeVars, groupVars, jsonVars>>

EncodeNext ==
    \/ MarshalXMLStart
    \/ MarshalXMLObject
    \/ MarshalXMLEnd

SpecEncode == EncodeInit /\ [][EncodeNext]_vars

----------------------------------------------------------------------------
(* Calling the methods of a field group *)

\* the values a field is given
FieldValues(type) ==
    CASE type = "string" -> {"", "Net A", " net "}
      [] type = "int"    -> {0, 1}
      [] type = "bool"   -> BOOLEAN
      [] type = "flag"   -> {TRUE}
      [] type = "mask"   -> {1, 3}
      [] type = "cid"    -> {9}
      [] type = "mcc"    -> {1, 208}
      [] type = "mnc"    -> {1, 15, 410}

CarrierValues == {"", "A-1"}

\* the groups of a type: every field nil or one of its values
RECURSIVE GroupsOver(_, _)
GroupsOver(layout, start) ==
    IF layout = <<>> THEN start
    ELSE GroupsOver(Tail(layout),
                    {(layout[1][1] :> v) @@ g :
                        v \in {Nil} \cup {Ptr(x) : x \in FieldValues(layout[1][2])},
                        g \in start})

GroupValues(kind) ==
    IF kind = "Root"
    THEN GroupsOver(GroupLayout(kind), {[Carrier |-> c] : c \in CarrierValues})
    ELSE GroupsOver(Tail(GroupLayout(kind)),
                    {[f \in {GroupLayout(kind)[1][1]} |-> v] :
                        v \in {Nil} \cup {Ptr(x) : x \in FieldValues(GroupLayout(kind)[1][2])}})

\* the heap with nothing but the group, its struct at address 1
NewGroup(kind, group) ==
    AssignFields(<<[f \in DOMAIN group |-> IF f \in InlineFields THEN group[f] ELSE 0]>>,
                 1, group, GroupFields(kind))

GroupInit ==
    /\ CodecIdle /\ CarrierIdle /\ DecodeIdle /\ EncodeIdle /\ JSONIdle
    /\ groupKind \in GroupKinds
    /\ \/ receiver = 0 /\ groupHeap = <<>>
       \/ receiver = 1 /\ groupHeap \in {NewGroup(groupKind, g) : g \in GroupValues(groupKind)}
    /\ receiverBefore = Nil /\ query = Nil /\ groupOp = <<>> /\ groupResult = <<>>

CallValidate ==
    /\ groupOp = <<>>
    /\ LET v == GroupValidate(groupKind, groupHeap, receiver)
       IN  /\ groupHeap' = v.heap
           /\ groupResult' = <<v.ok>>
    /\ receiverBefore' = Load(groupHeap, receiver)
    /\ groupOp' = <<"Validate">>
    /\ UNCHANGED <<groupKind, receiver, query>>
    /\ UNCHANGED <<codecVars, carrierVars, decodeVars, encodeVars, jsonVars>>

CallClone ==
    /\ groupOp = <<>>
    /\ LET c == GroupClone(groupKind, groupHeap, receiver)
       IN  /\ groupHeap' = c.heap
           /\ groupResult' = <<c.address>>
    /\ receiverBefore' = Load(groupHeap, receiver)
    /\ groupOp' = <<"Clone">>
    /\ UNCHANGED <<groupKind, receiver, query>>
    /\ UNCHANGED <<codecVars, carrierVars, decodeVars, encodeVars, jsonVars>>

\* the caller changes the clone: its Carrier, or the value one of its
\* field pointers points to
WriteClone ==
    /\ groupOp = <<"Clone">>
    /\ groupResult[1] /= 0
    /\ LET clone == groupResult[1]
       IN  \/ /\ groupKind = "Root"
              /\ \E c \in CarrierValues \ {groupHeap[clone].Carrier} :
                    groupHeap' = [groupHeap EXCEPT ![clone].Carrier = c]
           \/ \E i \in 1..Len(GroupLayout(groupKind)) :
                LET cell == groupHeap[clone][GroupLayout(groupKind)[i][1]]
                IN  /\ cell /= 0
                    /\ \E x \in FieldValues(GroupLayout(groupKind)[i][2]) \ {groupHeap[cell]} :
                          groupHeap' = [groupHeap EXCEPT ![cell] = x]
    /\ groupOp' = <<"Clone", "Write">>
    /\ UNCHANGED <<groupKind, receiver, receiverBefore, query, groupResult>>
    /\ UNCHANGED <<codecVars, carrierVars, decodeVars, encodeVars, jsonVars>>

CallIsLike ==
    /\ groupOp = <<>>
    /\ groupKind /= "Root"
    /\ \E q \in {Nil} \cup {Ptr(g) : g \in GroupValues(groupKind)} :
          /\ query' = q
          /\ groupResult' = <<IsLike(groupKind, Load(groupHeap, receiver), q)>>
    /\ receiverBefore' = Load(groupHeap, receiver)
    /\ groupOp' = <<"IsLike">>
    /\ UNCHANGED <<groupKind, groupHeap, receiver>>
    /\ UNCHANGED <<codecVars, carrierVars, decodeVars, encodeVars, jsonVars>>

CallGetID ==
    /\ groupOp = <<>>
    /\ groupKind = "Root"
    /\ receiver /= 0
    /\ groupResult' = <<GetID(Deref(Load(groupHeap, receiver)))>>
    /\ receiverBefore' = Load(groupHeap, receiver)
    /\ groupOp' = <<"GetID">>
    /\ UNCHANGED <<groupKind, groupHeap, receiver, query>>
    /\ UNCHANGED <<codecVars, carrierVars, decodeVars, encodeVars, jsonVars>>

GroupNext ==
    \/ CallValidate
    \/ CallClone
    \/ WriteClone
    \/ CallIsLike
    \/ CallGetID

SpecGroup == GroupInit /\ [][GroupNext]_vars

----------------------------------------------------------------------------
(* Encoding a collection or an object to JSON *)

\* the frames a goroutine's stack has room for
MaxStack == 8

\* the types with a MarshalJSON method of their own among those
\* json.MarshalIndent is given here
ImplementsMarshaler(type) == type = "APNArray"

\* the frames a call of function with a value of the type starts with: the
\* function does nothing before it calls json.MarshalIndent
MarshalIndentCall(function) == <<function, "json.MarshalIndent">>

JSONInit ==
    /\ CodecIdle /\ CarrierIdle /\ DecodeIdle /\ EncodeIdle /\ GroupIdle
    /\ jsonPc = "idle" /\ jsonType = "" /\ jsonStack = <<>> /\ jsonReturn = <<>>
    /\ jsonArray \in UNION {[1..n -> FlatObjects] : n \in 0..MaxApns}

\* APNObject.String() of one of the objects of the collection
CallObjectString ==
    /\ jsonPc = "idle"
    /\ jsonArray /= <<>>
    /\ jsonPc' = "running"
    /\ jsonType' = "APNObject"
    /\ jsonStack' = MarshalIndentCall("APNObject.String")
    /\ UNCHANGED <<jsonArray, jsonReturn>>
    /\ UNCHANGED <<codecVars, carrierVars, decodeVars, encodeVars, groupVars>>

\* ExportToJSONByte(apnArray), apnArray.MarshalJSON() or apnArray.String()
CallArrayToJSON ==
    /\ jsonPc = "idle"
    /\ \E function \in {"ExportToJSONByte", "APNArray.MarshalJSON", "APNArray.String"} :
          jsonStack' = MarshalIndentCall(function)
    /\ jsonPc' = "running"
    /\ jsonType' = "APNArray"
    /\ UNCHANGED <<jsonArray, jsonReturn>>
    /\ UNCHANGED <<codecVars, carrierVars, decodeVars, encodeVars, groupVars>>

\* json.MarshalIndent finds that the type of its value has a MarshalJSON
\* method and calls it, and the method calls json.MarshalIndent with its
\* receiver
MarshalerEncoder ==
    /\ jsonPc = "running" /\ jsonReturn = <<>>
    /\ jsonStack[Len(jsonStack)] = "json.MarshalIndent"
    /\ ImplementsMarshaler(jsonType)
    /\ Len(jsonStack) + 2 <= MaxStack
    /\ jsonStack' = jsonStack \o MarshalIndentCall(jsonType \o ".MarshalJSON")
    /\ UNCHANGED <<jsonPc, jsonArray, jsonType, jsonReturn>>
    /\ UNCHANGED <<codecVars, carrierVars, decodeVars, encodeVars, groupVars>>

\* the same call with no room left for its frames: the runtime ends the
\* process with "fatal error: stack overflow"
StackOverflow ==
    /\ jsonPc = "running" /\ jsonReturn = <<>>
    /\ jsonStack[Len(jsonStack)] = "json.MarshalIndent"
    /\ ImplementsMarshaler(jsonType)
    /\ Len(jsonStack) + 2 > MaxStack
    /\ jsonPc' = "fatal"
    /\ UNCHANGED <<jsonArray, jsonType, jsonStack, jsonReturn>>
    /\ UNCHANGED <<codecVars, carrierVars, decodeVars, encodeVars, groupVars>>

\* json.MarshalIndent writes a value of a type without MarshalJSON field by
\* field and has its result
StructEncoder ==
    /\ jsonPc = "running" /\ jsonReturn = <<>>
    /\ jsonStack[Len(jsonStack)] = "json.MarshalIndent"
    /\ ~ImplementsMarshaler(jsonType)
    /\ jsonReturn' = <<ErrNil>>
    /\ UNCHANGED <<jsonPc, jsonArray, jsonType, jsonStack>>
    /\ UNCHANGED <<codecVars, carrierVars, decodeVars, encodeVars, groupVars>>

\* the function on top returns to its caller what the function it called
\* returned
JSONReturn ==
    /\ jsonPc = "running" /\ jsonReturn /= <<>>
    /\ jsonStack' = SubSeq(jsonStack, 1, Len(jsonStack) - 1)
    /\ jsonPc' = IF Len(jsonStack) = 1 THEN "returned" ELSE "running"
    /\ UNCHANGED <<jsonArray, jsonType, jsonReturn>>
    /\ UNCHANGED <<codecVars, carrierVars, decodeVars, encodeVars, groupVars>>

JSONNext ==
    \/ CallObjectString
    \/ CallArrayToJSON
    \/ MarshalerEncoder
    \/ StackOverflow
    \/ StructEncoder
    \/ JSONReturn

\* a function that was called keeps running until it returns or the
\* process ends
SpecJSON == JSONInit /\ [][JSONNext]_vars /\ WF_vars(JSONNext)

----------------------------------------------------------------------------
(* The uses together *)

Init == CodecInit \/ CarrierInit \/ DecodeInit \/ EncodeInit \/ GroupInit \/ JSONInit

Next == CodecNext \/ CarrierNext \/ DecodeNext \/ EncodeNext \/ GroupNext \/ JSONNext

Spec == Init /\ [][Next]_vars

----------------------------------------------------------------------------
(* Properties of APNArray.UnmarshalXML *)

Representatives == {apnArray[n] : n \in 1..Len(apnArray)}
RootOf(apnObject) == Deref(apnObject.APNObjectRoot)
GroupMapOf(apnObject) == Deref(apnObject.GroupMapByType)

\* what the attributes of an element say about its identity
HasMccMnc(xmlAttr) == ~IsNil(xmlAttr.mcc) /\ ~IsNil(xmlAttr.mnc)
ValidInputs == {i \in 1..Len(document) : HasMccMnc(document[i])}
InputMcc(i) == XMLInt(Deref(document[i].mcc)).val
InputMnc(i) == XMLInt(Deref(document[i].mnc)).val
InputIdentity(i) ==
    <<IF IsNil(document[i].carrier_id) THEN Nil
      ELSE Ptr(XMLInt(Deref(document[i].carrier_id)).val),
      InputMcc(i), InputMnc(i)>>
InputObject(i) == APNObjectUnmarshalXML(document[i]).obj

\* the representatives whose member list holds the i-th element
RepresentativesOf(i) ==
    {n \in 1..Len(apnArray) :
        LET members == apnPointerArrayMap[GetID(RootOf(apnArray[n]))]
        IN  \E m \in 1..Len(members) : members[m] = InputObject(i)}

OrangeElement ==
    Attr(<<"Orange FR">>, Nil, <<"208">>, <<"01">>, Nil, <<"default,mms">>)

C1_Scenario == pc = "done" /\ document = <<OrangeElement>>

\* C1 as stated: the document with the one element carrier="Orange FR"
\* mcc="208" mnc="01" type="default,mms" decodes to one representative with
\* the two keys "default" and "mms", carrier "Orange FR" and PLMN "20801".
C1_TwoKeys ==
    C1_Scenario =>
        /\ Len(apnArray) = 1
        /\ DOMAIN GroupMapOf(apnArray[1]) = {"default", "mms"}
        /\ RootOf(apnArray[1]).Carrier = "Orange FR"
        /\ GetPLMN(RootOf(apnArray[1])) = "20801"

\* C1 amended: that document decodes to one representative with carrier
\* "Orange FR" and PLMN "20801" whose GroupMapByType has exactly one entry,
\* stored under "default|mms", the string of the element's whole type, and
\* holding the value default|mms.
C1_OneKey ==
    C1_Scenario =>
        /\ Len(apnArray) = 1
        /\ DOMAIN GroupMapOf(apnArray[1]) = {"default|mms"}
        /\ Deref(GroupMapOf(apnArray[1])["default|mms"].Base).Type
             = Ptr(BitOr(APNTYPE_BASE_TYPE_DEFAULT, APNTYPE_BASE_TYPE_MMS))
        /\ RootOf(apnArray[1]).Carrier = "Orange FR"
        /\ GetPLMN(RootOf(apnArray[1])) = "20801"

C1_Witness == C1_Scenario /\ Len(apnArray) = 1

\* C3: after decoding, two valid elements with the same (carrier id, MCC,
\* MNC) are under the same single representative, two valid elements that
\* differ in MCC or MNC are under no common representative, and there is
\* one representative per identity of the valid elements.
C3_IdentityGrouping ==
    pc = "done" =>
        /\ \A i, j \in ValidInputs :
              InputIdentity(i) = InputIdentity(j) =>
                  /\ RepresentativesOf(i) = RepresentativesOf(j)
                  /\ Cardinality(RepresentativesOf(i)) = 1
        /\ \A i, j \in ValidInputs :
              (InputMcc(i) /= InputMcc(j) \/ InputMnc(i) /= InputMnc(j)) =>
                  RepresentativesOf(i) \cap RepresentativesOf(j) = {}
        /\ Len(apnArray) = Cardinality({InputIdentity(i) : i \in ValidInputs})

\* C4: after decoding, every representative has MCC and MNC, its identity
\* is the (cleaned) identity of an element that has both attributes, every
\* entry of its GroupMapByType is such an element of the same key, and a
\* document without such elements gives no representative.
C4_ValidityGate ==
    pc = "done" =>
        /\ \A r \in Representatives :
              /\ ~IsNil(r.APNObjectRoot)
              /\ ~IsNil(RootOf(r).Mcc) /\ ~IsNil(RootOf(r).Mnc)
              /\ \E i \in ValidInputs :
                    LET root == RootOf(InputObject(i))
                    IN  RootOf(r) = [root EXCEPT !.Carrier = GetCarrier(root.Carrier)]
              /\ \A k \in DOMAIN GroupMapOf(r) :
                    \E i \in ValidInputs :
                        /\ GetID(RootOf(InputObject(i))) = GetID(RootOf(r))
                        /\ GroupMapOf(r)[k] = [InputObject(i) EXCEPT !.APNObjectRoot = Nil]
        /\ (ValidInputs = {} => apnArray = <<>>)

C4_Witness ==
    /\ pc = "done"
    /\ Len(document) = 2
    /\ Cardinality(ValidInputs) = 1
    /\ Len(apnArray) = 1

\* a comes before b in the order (MCC, MNC, identity key as a string)
C5_Before(a, b) ==
    LET ra == RootOf(a)
        rb == RootOf(b)
    IN  \/ Deref(ra.Mcc) < Deref(rb.Mcc)
        \/ Deref(ra.Mcc) = Deref(rb.Mcc) /\ Deref(ra.Mnc) < Deref(rb.Mnc)
        \/ /\ Deref(ra.Mcc) = Deref(rb.Mcc) /\ Deref(ra.Mnc) = Deref(rb.Mnc)
           /\ StrLess(GetID(ra), GetID(rb))

C5_Orders ==
    LET keys == DOMAIN apnPointerArrayMap
        n == Cardinality(keys)
    IN  {o \in [1..n -> keys] : \A i, j \in 1..n : o[i] = o[j] => i = j}

\* C5: the decoded collection is in strictly ascending order of (MCC, MNC,
\* identity key), and it is the only result of the grouping loop and the
\* sort, whatever order the loop walks the map in.
C5_Sorted ==
    pc = "done" =>
        /\ \A n \in 1..(Len(apnArray) - 1) : C5_Before(apnArray[n], apnArray[n + 1])
        /\ \A order \in C5_Orders :
              SortSlice([i \in 1..Len(order) |->
                            BuildRepresentative(apnPointerRootMap[order[i]],
                                                apnPointerArrayMap[order[i]])])
                  = {apnArray}

C5_Witness ==
    /\ pc = "done"
    /\ Len(apnArray) = 2
    /\ RootOf(apnArray[1]).Mcc = RootOf(apnArray[2]).Mcc
    /\ RootOf(apnArray[1]).Mnc = RootOf(apnArray[2]).Mnc
    /\ ~IsNil(RootOf(apnArray[1]).CarrierID)

----------------------------------------------------------------------------
(* Properties of GetCarrier *)

\* C2: GetCarrier of a non-empty carrier string is never the empty string.
C2_NeverEmpty ==
    (~IsNil(cleaned) /\ carrier /= "") => Deref(cleaned) /= ""

----------------------------------------------------------------------------
(* Properties of the type codecs *)

DefinedValues(c) == DOMAIN Storage(c).JSONMap.MapByIndex
NoneIndexOf(c) == Storage(c).JSONMap.NoneIndex
MaxIndexOf(c) == Storage(c).JSONMap.MaxIndex

\* C6: for each of the four types and every value of its table, the none
\* value included, UnmarshalXMLValue of the attribute MarshalXMLValue wrote
\* returns no error and stores the value.
C6_XMLRoundTrip ==
    (op = <<"MarshalXMLValue", "UnmarshalXMLValue">> /\ apnTypeValue \in DefinedValues(codec))
        => (err = ErrNil /\ target = apnTypeValue)

\* C7: for each of the four types and every value of its table,
\* UnmarshalJSONValue of the bytes MarshalJSONValue wrote returns no error,
\* does not panic and stores the value.
C7_JSONRoundTrip ==
    (op = <<"MarshalJSONValue", "UnmarshalJSONValue">> /\ apnTypeValue \in DefinedValues(codec))
        => (err = ErrNil /\ target = apnTypeValue)

\* C8: SetStringArray of the names of a set of flags followed by
\* GetIndexArray of the composed value gives the flags of the set in
\* ascending order, and the none value alone for the empty set.
C8_NamesToFlags ==
    op = <<"SetStringArray", "GetIndexArray">> =>
        /\ err = ErrNil
        /\ apnTypeIndexArray =
              IF flagSet = {} THEN <<NoneIndexOf(codec)>> ELSE SortAscending(flagSet)

C8_Witness ==
    /\ op = <<"SetStringArray", "GetIndexArray">>
    /\ Cardinality(flagSet) = 2
    /\ Len(apnTypeIndexArray) = 2
    /\ apnTypeStringArray[1] = Storage(codec).JSONMap.MapByIndex[apnTypeIndexArray[2]]

\* C9: for a value between the none value and the maximum, the bitwise OR
\* of the flags GetIndexArray returns is the value; and GetIndexArray
\* returns the none value alone when the value contains no flag.
C9_FlagsToValue ==
    op = <<"GetIndexArray">> =>
        /\ (NoneIndexOf(codec) < apnTypeValue /\ apnTypeValue < MaxIndexOf(codec))
              => OrAll(apnTypeIndexArray) = apnTypeValue
        /\ (\A f \in Flags(codec) : BitAnd(apnTypeValue, f) /= f)
              => apnTypeIndexArray = <<NoneIndexOf(codec)>>

C9_Witness ==
    /\ op = <<"GetIndexArray">>
    /\ Cardinality(flagSet) >= 2
    /\ NoneIndexOf(codec) < apnTypeValue /\ apnTypeValue < MaxIndexOf(codec)
    /\ Len(apnTypeIndexArray) >= 2

\* C10: for every type, decoding the empty string (the empty attribute in
\* XML, the empty string in JSON) returns no error and stores the none
\* value.
C10_EmptyIsNone ==
    (\/ op = <<"UnmarshalXMLValue">> /\ wire = ""
     \/ op = <<"UnmarshalJSONValue">> /\ wire = "\"\"")
        => (err = ErrNil /\ target = NoneIndexOf(codec))

\* the attribute is a decimal number, for a type whose XML form is numeric
C11_Numeric ==
    /\ op = <<"UnmarshalXMLValue">>
    /\ Storage(codec).option.xmlIsNumber
    /\ ~Atoi(wire).err

C11_InRange ==
    /\ NoneIndexOf(codec) <= Atoi(wire).val
    /\ Atoi(wire).val < MaxIndexOf(codec)

\* C11 as stated: for a type with a numeric XML form, UnmarshalXMLValue of a
\* number outside [NoneIndex, MaxIndex) returns an error and of a number
\* inside it returns none.
C11_InRangeSucceeds ==
    C11_Numeric => (C11_InRange <=> err = ErrNil)

\* C11 amended: UnmarshalXMLValue of a number outside [NoneIndex, MaxIndex)
\* returns an error for both numeric types; a number inside the range is
\* stored by the index-based type (auth), and the numeral of a position
\* 1..N is decoded to the flag at that position by the order-based type
\* (network).
C11_NumericDecode ==
    C11_Numeric =>
        LET o == Storage(codec).option
            n == Atoi(wire).val
            IndexArray == Storage(codec).JSONMap.IndexArray
        IN  /\ ~C11_InRange => err /= ErrNil
            /\ (o.xmlNumberIsIndex /\ C11_InRange) => (err = ErrNil /\ target = n)
            /\ (o.xmlNumberIsOrder /\ 1 <= n /\ n <= Len(IndexArray) /\ wire = Itoa(n))
                  => (err = ErrNil /\ target = IndexArray[n])

C11_Witness ==
    /\ C11_Numeric
    /\ codec = "AuthType"
    /\ wire = "3"
    /\ target = 3

\* C12: when the root element is not named apns, or DecodeElement fails on
\* an <apn> element, UnmarshalXML has returned that error and the receiver
\* holds no representative, whatever was decoded before.
C12_FailFast ==
    /\ (pc /= "idle" /\ xmlStartName /= "apns") =>
            (pc = "failed" /\ decodeErr = "apn xml has incorrect root element")
    /\ \A i \in 1..Len(document) :
            DecodeHelperAPNObject(document[i]).err /= ErrNil =>
                /\ pc = "failed"
                /\ decodeErr = DecodeHelperAPNObject(document[i]).err
                /\ i = Len(document)
    /\ pc = "failed" => (decodeErr /= ErrNil /\ apnArray = <<>>)

C12_Witness ==
    /\ pc = "failed"
    /\ Len(document) = 2
    /\ DOMAIN apnPointerArrayMap /= {}
    /\ decodeErr = ErrIncorrectString
    /\ apnArray = <<>>

----------------------------------------------------------------------------
(* Properties of APNArray.MarshalXML *)

\* the number of elements one object of the collection stands for
C13_Count(apnObject) ==
    IF IsNil(apnObject.GroupMapByType) THEN 1
    ELSE Cardinality(DOMAIN Deref(apnObject.GroupMapByType))

\* the number of elements the objects before position i stand for
RECURSIVE C13_Offset(_)
C13_Offset(i) == IF i <= 1 THEN 0 ELSE C13_Offset(i - 1) + C13_Count(encArray[i - 1])

\* the key of a map that has j - 1 keys below it
C13_Key(GroupMap, j) ==
    CHOOSE k \in DOMAIN GroupMap :
        Cardinality({l \in DOMAIN GroupMap : StrLess(l, k)}) = j - 1

\* the element reads back as this identity and this Base group
C13_Carries(element, apnPointerRoot, apnPointerBase) ==
    /\ DecodeHelperAPNObject(element).err = ErrNil
    /\ DecodeHelperAPNObject(element).APNObjectRoot = apnPointerRoot
    /\ DecodeHelperAPNObject(element).APNObjectBase = apnPointerBase

\* C13: while MarshalXML runs and when it has returned nil, the elements
\* written are, for each object passed so far in the order of the collection:
\* one element with the object's own identity and groups when its
\* GroupMapByType is nil; otherwise one element for every entry of the map,
\* in ascending order of the keys, with the object's identity and the
\* entry's groups
C13_Emission ==
    encPc \in {"loop", "done"} =>
        /\ Len(encoded) = C13_Offset(encIndex)
        /\ \A i \in 1..(encIndex - 1) :
              LET apnObject == encArray[i]
              IN  IF IsNil(apnObject.GroupMapByType)
                  THEN C13_Carries(encoded[C13_Offset(i) + 1],
                                   apnObject.APNObjectRoot, apnObject.Base)
                  ELSE \A j \in 1..C13_Count(apnObject) :
                         C13_Carries(
                            encoded[C13_Offset(i) + j],
                            apnObject.APNObjectRoot,
                            Deref(apnObject.GroupMapByType)[
                                C13_Key(Deref(apnObject.GroupMapByType), j)].Base)

\* a collection of a flat record and a representative with two entries has
\* been written as three elements
C13_Witness ==
    /\ encPc = "done" /\ Len(encArray) = 2 /\ Len(encoded) = 3
    /\ IsNil(encArray[1].GroupMapByType)
    /\ ~IsNil(encArray[2].GroupMapByType)
    /\ DOMAIN Deref(encArray[2].GroupMapByType) = {"mms", "default"}
    /\ Deref(encoded[2].type) = "default" /\ Deref(encoded[3].type) = "mms"

----------------------------------------------------------------------------
(* Properties of the configured XML encodings *)

\* the 1-based position of a flag among the flags of a type
C14_Position(c, flag) ==
    CHOOSE i \in 1..Len(Storage(c).JSONMap.IndexArray) :
        Storage(c).JSONMap.IndexArray[i] = flag

\* the positions of the flags of a value, lowest flag first
C14_Positions(c, flags) ==
    [i \in 1..Len(SetToSeq(flags)) |-> Itoa(C14_Position(c, SetToSeq(flags)[i]))]

\* C14 as stated: MarshalXMLValue writes a flag of the auth type as its
\* position among the flags and a value of the network type as its raw
\* integer.
C14_AuthOrderNetworkIndex ==
    op = <<"MarshalXMLValue">> =>
        /\ (codec = "AuthType" /\ Cardinality(flagSet) = 1) =>
               wire = Itoa(C14_Position(codec, apnTypeValue))
        /\ codec = "NetworkType" => wire = Itoa(apnTypeValue)

\* C14 amended: MarshalXMLValue writes a value of the auth type as its raw
\* integer (index-based) and the flags of a value of the network type as
\* their 1-based positions among the flags (order-based), joined by "|".
C14_AuthIndexNetworkOrder ==
    op = <<"MarshalXMLValue">> =>
        /\ codec = "AuthType" => wire = Itoa(apnTypeValue)
        /\ (codec = "NetworkType" /\ flagSet /= {}) =>
               wire = Join(C14_Positions(codec, flagSet), "|")

\* lte and nr, the flags 4096 and 524288, are written as "13|20"
C14_Witness ==
    /\ op = <<"MarshalXMLValue">>
    /\ codec = "NetworkType"
    /\ apnTypeValue = 4096 + 524288
    /\ wire = "13|20"

----------------------------------------------------------------------------
(* Properties of the field groups *)

\* Validate was called on an Auth group with a type and with exactly one
\* of username and password
C15_OneAbsent ==
    /\ groupOp = <<"Validate">>
    /\ groupKind = "Auth"
    /\ ~IsNil(receiverBefore)
    /\ ~IsNil(Deref(receiverBefore).Type)
    /\ IsNil(Deref(receiverBefore).Username) /= IsNil(Deref(receiverBefore).Password)

\* C15: Validate on an Auth group that has a type and exactly one of
\* username and password returns true, leaves the empty string in the field
\* that was absent and leaves the type and the other field as they were.
C15_AuthDefaulting ==
    C15_OneAbsent =>
        /\ groupResult = <<TRUE>>
        /\ Load(groupHeap, receiver) =
              Ptr([Type     |-> Deref(receiverBefore).Type,
                   Username |-> IF IsNil(Deref(receiverBefore).Username) THEN Ptr("")
                                ELSE Deref(receiverBefore).Username,
                   Password |-> IF IsNil(Deref(receiverBefore).Password) THEN Ptr("")
                                ELSE Deref(receiverBefore).Password])

\* type pap, no username, a password: the username has become ""
C15_Witness ==
    /\ C15_OneAbsent
    /\ receiverBefore = Ptr([Type |-> Ptr(1), Username |-> Nil, Password |-> Ptr("Net A")])
    /\ Load(groupHeap, receiver) =
          Ptr([Type |-> Ptr(1), Username |-> Ptr(""), Password |-> Ptr("Net A")])

\* C16: Clone of the identity or of one of the eight groups returns nil
\* exactly when Validate is false of the receiver (a nil receiver included);
\* otherwise it returns a group whose fields equal those of the receiver as
\* Validate left it and that has no cell in common with the receiver, so
\* that the receiver keeps its fields when the clone is written to.
C16_CloneIndependent ==
    (Len(groupOp) >= 1 /\ groupOp[1] = "Clone") =>
        LET v == Validate(groupKind, receiverBefore)
            clone == groupResult[1]
        IN  /\ (clone = 0) <=> ~v.ok
            /\ Load(groupHeap, receiver) = v.self
            /\ clone /= 0 =>
                  /\ Cells(groupHeap, clone) \cap Cells(groupHeap, receiver) = {}
                  /\ groupOp = <<"Clone">> => Load(groupHeap, clone) = v.self

\* a Proxy group was cloned and the clone's port was changed afterwards
C16_Witness ==
    /\ groupOp = <<"Clone", "Write">>
    /\ groupKind = "Proxy"
    /\ groupResult[1] /= 0
    /\ Load(groupHeap, receiver) = Ptr([Server |-> Ptr("Net A"), Port |-> Ptr(0)])
    /\ Load(groupHeap, groupResult[1]) = Ptr([Server |-> Ptr("Net A"), Port |-> Ptr(1)])

\* the text between "PLMN:" and the closing ";" of an identity key
C17_PLMN(key) ==
    LET i == Index(key, "PLMN:")
    IN  SubSeq(key, i + 5, Len(key) - 1)

\* C17: GetID is "CID:<carrierID>;" when the carrier id is set, followed by
\* "PLMN:<p>;", where p is five digits, the MCC padded with zeros to three
\* digits and then the MNC padded to two, and "00000" when MCC or MNC is nil.
C17_IdentityKey ==
    groupOp = <<"GetID">> =>
        LET apnRoot == Deref(receiverBefore)
            key == groupResult[1]
            p == C17_PLMN(key)
        IN  /\ key = (IF IsNil(apnRoot.CarrierID) THEN ""
                      ELSE "CID:" \o Itoa(Deref(apnRoot.CarrierID)) \o ";")
                     \o "PLMN:" \o p \o ";"
            /\ Len(p) = 5
            /\ \A i \in 1..Len(p) : IsDigit(Char(p, i))
            /\ (IsNil(apnRoot.Mcc) \/ IsNil(apnRoot.Mnc)) => p = "00000"
            /\ (~IsNil(apnRoot.Mcc) /\ ~IsNil(apnRoot.Mnc)) =>
                  /\ DigitsVal(SubSeq(p, 1, 3), 0) = Deref(apnRoot.Mcc)
                  /\ DigitsVal(SubSeq(p, 4, 5), 0) = Deref(apnRoot.Mnc)

\* a field of the query that is set is set in the candidate and matches it
C18_Matches(type, candidate, q) ==
    IsNil(q) \/
        /\ ~IsNil(candidate)
        /\ CASE type = "string" ->
                    Contains(ToLower(Deref(candidate)), TrimSpace(ToLower(Deref(q))))
             [] type = "mask"   -> BitAnd(Deref(candidate), Deref(q)) = Deref(q)
             [] OTHER           -> Deref(candidate) = Deref(q)

\* C18: for each of the eight groups, IsLike of a candidate group and a
\* query group is true exactly when every field set in the query is set in
\* the candidate and matches it: a string when the lower-cased, trimmed
\* query is contained in the lower-cased candidate, an int or a bool when
\* the two are equal, a bitmask when candidate & query = query.
C18_GroupIsLike ==
    (groupOp = <<"IsLike">> /\ ~IsNil(receiverBefore) /\ ~IsNil(query)) =>
        (groupResult[1] <=>
            \A i \in 1..Len(GroupLayout(groupKind)) :
                C18_Matches(GroupLayout(groupKind)[i][2],
                            Deref(receiverBefore)[GroupLayout(groupKind)[i][1]],
                            Deref(query)[GroupLayout(groupKind)[i][1]]))

----------------------------------------------------------------------------
(* Properties of the representatives *)

\* the carrier attribute of the i-th element as it was written
C19_RawCarrier(i) == IF IsNil(document[i].carrier) THEN "" ELSE Deref(document[i].carrier)

\* the valid elements with the identity key k
C19_Members(k) == {i \in ValidInputs : GetID(RootOf(InputObject(i))) = k}

\* the first of the members of k with the longest carrier
C19_Chosen(k) ==
    CHOOSE c \in C19_Members(k) :
        \A j \in C19_Members(k) :
            \/ Len(C19_RawCarrier(j)) < Len(C19_RawCarrier(c))
            \/ (Len(C19_RawCarrier(j)) = Len(C19_RawCarrier(c)) /\ c <= j)

\* C19: when UnmarshalXML has returned, the identity of the representative
\* of a key is that of the first among the key's valid elements with the
\* longest carrier attribute: its carrier id, MCC and MNC, and
\* GetCarrier of its carrier.
C19_BestIdentity ==
    pc = "done" =>
        \A n \in 1..Len(apnArray) :
            LET c == C19_Chosen(GetID(RootOf(apnArray[n])))
            IN  RootOf(apnArray[n]) =
                    [Carrier   |-> GetCarrier(C19_RawCarrier(c)),
                     CarrierID |-> InputIdentity(c)[1],
                     Mcc       |-> Ptr(InputMcc(c)),
                     Mnc       |-> Ptr(InputMnc(c))]

\* "Orange FR" and then "Orange 4G", of the same length, were read under
\* one key: the representative has the carrier of the first
C19_Witness ==
    /\ pc = "done"
    /\ Len(document) = 2
    /\ C19_RawCarrier(1) = "Orange FR"
    /\ C19_RawCarrier(2) = "Orange 4G"
    /\ Len(apnArray) = 1
    /\ RootOf(apnArray[1]).Carrier = "Orange FR"

\* the eight groups of an object
C20_Groups == {"Base", "Auth", "Bearer", "Proxy", "Mms", "Mvno", "Limit", "Other"}

\* C20: when UnmarshalXML has returned, every representative has its eight
\* groups nil and a GroupMapByType that is not nil, and every object in a
\* GroupMapByType has a nil root, a nil GroupMapByType, a Base group with a
\* Type, and the key String() of that Type.
C20_Structure ==
    pc = "done" =>
        \A n \in 1..Len(apnArray) :
            /\ \A g \in C20_Groups : IsNil(apnArray[n][g])
            /\ ~IsNil(apnArray[n].GroupMapByType)
            /\ \A k \in DOMAIN GroupMapOf(apnArray[n]) :
                  LET apnPointer == GroupMapOf(apnArray[n])[k]
                  IN  /\ IsNil(apnPointer.APNObjectRoot)
                      /\ IsNil(apnPointer.GroupMapByType)
                      /\ ~IsNil(apnPointer.Base)
                      /\ ~IsNil(Deref(apnPointer.Base).Type)
                      /\ k = Join(GetStringArray(apnTypeBaseTypeStorage.JSONMap,
                                                 Deref(Deref(apnPointer.Base).Type)), "|")

\* a representative with the two entries "default|mms" and "mms"
C20_Witness ==
    /\ pc = "done"
    /\ Len(apnArray) = 1
    /\ DOMAIN GroupMapOf(apnArray[1]) = {"default|mms", "mms"}
    /\ Deref(Deref(GroupMapOf(apnArray[1])["default|mms"].Base).Type) = 3

----------------------------------------------------------------------------
(* Members and the entries of GroupMapByType *)

\* the identity key of the i-th element
C21_Key(i) == GetID(RootOf(InputObject(i)))

\* the element writes a type, or an apn that Validate gives the default type
C21_Typed(i) == ~IsNil(document[i].type) \/ ~IsNil(document[i].apn)

\* the string of the type the element has after decoding
C21_TypeString(i) ==
    IF IsNil(document[i].type) THEN "default"
    ELSE BaseTypeString(
            UnmarshalXMLValue(apnTypeBaseTypeStorage, 0, Deref(document[i].type)).val)

\* the valid elements of a representative that bring the key k
C21_Bringing(r, k) ==
    {i \in ValidInputs :
        C21_Key(i) = GetID(RootOf(r)) /\ C21_Typed(i) /\ C21_TypeString(i) = k}

----------------------------------------------------------------------------
(* Validity of the Auth group *)

\* C22: Validate on an Auth group returns true exactly when its type is
\* present (with username and password both absent as well), and Clone
\* keeps the group, returning a group and not nil, in exactly these cases.
C22_AuthValidByType ==
    (groupKind = "Auth" /\ ~IsNil(receiverBefore)) =>
        /\ groupOp = <<"Validate">> =>
              groupResult = <<~IsNil(Deref(receiverBefore).Type)>>
        /\ groupOp = <<"Clone">> =>
              ((groupResult[1] /= 0) <=> ~IsNil(Deref(receiverBefore).Type))

----------------------------------------------------------------------------
(* The name "*" *)

\* C23: for every type, SetStringArray of the single name "*", or of names
\* of flags followed by "*", returns no error and stores the bitwise OR of
\* all the flags of the type.
C23_StarIsAll ==
    (/\ op = <<"SetStringArray">>
     /\ Len(apnTypeStringArray) >= 1
     /\ apnTypeStringArray[Len(apnTypeStringArray)] = "*") =>
        /\ err = ErrNil
        /\ target = OrAll(SetToSeq(Flags(codec)))

----------------------------------------------------------------------------
(* Counting the entries *)

\* the entries of all GroupMapByType of the decoded collection
C24_Entries ==
    UNION {{<<n, k>> : k \in DOMAIN GroupMapOf(apnArray[n])} : n \in 1..Len(apnArray)}

\* C24: after decoding, the number of entries of all GroupMapByType
\* together is the number of valid elements that have a Base type, so that
\* two members with the same identity key and the same type string are
\* both held.
C24_NoRecordLoss ==
    pc = "done" =>
        Cardinality(C24_Entries) = Cardinality({i \in ValidInputs : C21_Typed(i)})

----------------------------------------------------------------------------
(* Decoding what MarshalXML writes for a decoded collection *)

\* the elements MarshalXML hands to EncodeElement for the decoded collection
C25_Elements ==
    UNION {{MarshalXMLElements(apnArray[n])[j] :
                j \in 1..Len(MarshalXMLElements(apnArray[n]))} : n \in 1..Len(apnArray)}

\* the identity keys UnmarshalXML collects from these elements
C25_KeysAgain ==
    {GetID(RootOf(APNObjectUnmarshalXML(e).obj)) :
        e \in {x \in C25_Elements :
                  RootValidate(APNObjectUnmarshalXML(x).obj.APNObjectRoot)}}

\* C25: every representative of a decoded collection has an entry in its
\* GroupMapByType, MarshalXML writes at least one element for it, and the
\* identity keys of the collection decoded from what MarshalXML writes are
\* the identity keys of the collection.
C25_KeysSurvive ==
    pc = "done" =>
        /\ \A r \in Representatives :
              /\ DOMAIN GroupMapOf(r) /= {}
              /\ Len(MarshalXMLElements(r)) >= 1
        /\ C25_KeysAgain = {GetID(RootOf(r)) : r \in Representatives}

----------------------------------------------------------------------------
(* APNObject.IsLike on a representative *)

\* the identity of the object agrees with what the query says of the
\* carrier id, of MCC and MNC, and of the carrier
C26_IdentityMatches(root, like) ==
    /\ ~IsNil(like.CarrierID) => root.CarrierID = like.CarrierID
    /\ (~IsNil(like.Mcc) /\ ~IsNil(like.Mnc)) =>
          (root.Mcc = like.Mcc /\ root.Mnc = like.Mnc)
    /\ TrimSpace(ToLower(like.Carrier)) /= "" =>
          Contains(TrimSpace(ToLower(root.Carrier)), TrimSpace(ToLower(like.Carrier)))

\* C26: IsLike on a representative with a GroupMapByType is true only if
\* the representative's identity agrees with the identity fields of the
\* query (carrier id, MCC and MNC, carrier substring).
C26_IsLikeRespectsIdentity ==
    (/\ isLike = <<TRUE>>
     /\ ~IsNil(apnPointerQuery)
     /\ ~IsNil(Deref(apnPointerQuery).APNObjectRoot)) =>
        C26_IdentityMatches(RootOf(apnArray[likeIndex]),
                            Deref(Deref(apnPointerQuery).APNObjectRoot))

----------------------------------------------------------------------------
(* Errors of EncodeElement *)

----------------------------------------------------------------------------
(* The target of a failed Set or Unmarshal *)

\* the last method called is one of those that decode into target
C28_Decoded(methods) ==
    /\ Len(methods) >= 1
    /\ methods[Len(methods)] \in {"SetStringArray", "UnmarshalXMLValue"}

\* C28: a call of SetStringArray or of UnmarshalXMLValue (and with it of
\* SetString, which decodes the attributes of the types written as names)
\* that returns an error leaves in target the value it held before the
\* call.
C28_FailureKeepsTarget ==
    [][(C28_Decoded(op') /\ err' /= ErrNil) => target' = target]_vars

\* a target that held a flag still holds it after an attribute with a
\* number out of range, and after a list with an unknown name
C28_Witness ==
    /\ target /= Storage(codec).JSONMap.NoneIndex
    /\ \/ op = <<"UnmarshalXMLValue">> /\ err = ErrOutOfRange
       \/ op = <<"SetStringArray">> /\ err = ErrIncorrectString

----------------------------------------------------------------------------
(* The receiver of Clone *)

\* C29: Clone reads its receiver and writes nothing to it: the fields of
\* the identity, and of each of the eight groups, are after Clone what they
\* were before it.
C29_CloneReadOnly ==
    (groupOp = <<"Clone">>) => Load(groupHeap, receiver) = receiverBefore

----------------------------------------------------------------------------
(* The end of encoding to JSON *)

\* C30: a call of ExportToJSONByte or of APNArray.MarshalJSON, with any
\* collection, the empty one included, returns after finitely many steps.
C30_EncodeJSONReturns ==
    (jsonPc = "running" /\ jsonType = "APNArray") ~> (jsonPc = "returned")

\* the same of APNObject.String, whose type has no MarshalJSON
C30_ObjectStringReturns ==
    (jsonPc = "running" /\ jsonType = "APNObject") ~> (jsonPc = "returned")

====
